---- MODULE Spec2Model ----
(***************************************************************************)
(* Project Drifter: chunk store, world generator, collision queries and    *)
(* the player controller, modelled from the TypeScript sources.            *)
(*                                                                         *)
(* Numbers.  The sources use IEEE doubles; the model uses fixed point:     *)
(*   time        milliseconds            (dt = 0.1 s  is 100)              *)
(*   length      1/1000 pixel            (tileSize 64 px is 64000)         *)
(*   speed       pixel per second; a velocity is a unit vector in 1/1000   *)
(*               times a speed, so  velocity * dt / 1000  is 1/1000 pixel  *)
(*   angle       degree                  (PI is 180)                       *)
(*   noise       1/NoiseScale            (a value n stands for n/NoiseScale)*)
(***************************************************************************)
EXTENDS Integers, Sequences, FiniteSets, TLC

VARIABLES
    chunks,        \* WorldSystem.chunks : key string -> tile grid
    chunkCache,    \* WorldSystem.chunkCache : keys that hold a rendered canvas
    generated,     \* per coordinate pair: the generateChunk invocations so far
    last,          \* arguments and return value of the latest getChunk
    look,          \* the indices computed by the latest getTileAt
    other,         \* a second WorldSystem instance (a second run)
    sample,        \* inputs and result of the latest tile classification
    player,        \* the PlayerEntity's fields
    keys,          \* InputSystem.keys
    projectiles,   \* ProjectileSystem.projectiles
    tick,          \* observer: the dt of the latest update call, the dashes
                   \* started since the dash key went down, whether the
                   \* latest update saw the dash key down with no direction
                   \* to move in, the list indices of the projectiles
                   \* that were due to go in the latest update, whether the
                   \* latest frame ran update, the shots the player fired in
                   \* it, the dt accumulated since the latest shot, and that
                   \* sum as it stood when the latest shot was fired, the
                   \* timestamp of the latest frame, and the time that has
                   \* passed with the menu open just before it
    app,           \* App's loop state: previousTimeRef.current in milliseconds,
                   \* and cameraRef.current
    inventory,     \* the InventorySystemNew's fields: slots, maxSlots, gold
    call           \* observer: the latest inventory call, its arguments and
                   \* return value, and the inventory before it

worldVars == <<chunks, chunkCache, generated, last, look, other>>
gameVars == <<player, keys, projectiles, tick, app, inventory, call>>
vars == <<chunks, chunkCache, generated, last, look, other, sample,
          player, keys, projectiles, tick, app, inventory, call>>

----------------------------------------------------------------------------
(* Arithmetic of the host language *)

Abs(a) == IF a < 0 THEN -a ELSE a

\* the % operator of JavaScript: the remainder has the sign of the dividend
JsRem(a, b) == IF a >= 0 THEN a % b ELSE -((-a) % b)

\* Math.floor(a / b) for b > 0
FloorDiv(a, b) == a \div b

----------------------------------------------------------------------------
(* gameUtils.ts *)

TileType == {"Grass", "Wall", "Water", "Bedrock", "Road", "Forest",
             "DeepForest", "Cliff", "DeepWater", "Sand"}

TILE_DEFS ==
    [t \in TileType |-> [passable |-> t \in {"Grass", "Road", "Forest", "Sand"}]]

tileSize == 64000
chunkSize == 16
worldRadiusChunks == 6

----------------------------------------------------------------------------
(* WorldSystem.ts : noise *)

NoiseScale == 1000

\* pseudoRandom(x, y) = frac(sin(x * 12.9898 + y * 78.233) * 43758.5453).
\* The sine of the dot product is not computable in integer arithmetic; the
\* hash is represented by an integer mixing of the same dot product (scaled
\* by 10^4) into 0 .. NoiseScale-1.  Like the source it depends on (x, y)
\* only and is 0 at (0, 0), where sin(0) = 0.  The classification claims do
\* not rest on it: SpecGen draws every noise value independently.
pseudoRandom(x, y) ==
    LET dot == x * 129898 + y * 782330
        sin == (dot % 10007) * 43758
    IN  sin % NoiseScale

lerp(a, b, t) == a + ((b - a) * t) \div NoiseScale

\* noise(x, y) with x = xn / xd and y = yn / yd (xd, yd > 0)
noise(xn, xd, yn, yd) ==
    LET ix == FloorDiv(xn, xd)
        iy == FloorDiv(yn, yd)
        fx == xn - ix * xd            \* fx / xd is the fraction
        fy == yn - iy * yd
        a == pseudoRandom(ix, iy)
        b == pseudoRandom(ix + 1, iy)
        c == pseudoRandom(ix, iy + 1)
        d == pseudoRandom(ix + 1, iy + 1)
        ux == (fx * fx * (3 * xd - 2 * fx) * NoiseScale) \div (xd * xd * xd)
        uy == (fy * fy * (3 * yd - 2 * fy) * NoiseScale) \div (yd * yd * yd)
    IN  lerp(lerp(a, b, ux), lerp(c, d, ux), uy)

----------------------------------------------------------------------------
(* WorldSystem.ts : generateChunk, one tile *)

boundaryStart == worldRadiusChunks * chunkSize - 8

\* dist > base + k + n/NoiseScale, with dist = sqrt(d2): compared on squares,
\* floor((q + r/S)^2) = q^2 + floor((2qrS + r^2) / S^2)
DistAbove(d2, q, r) ==
    d2 > q * q + (2 * q * r * NoiseScale + r * r) \div (NoiseScale * NoiseScale)

\* variants of TileFor used to test the strength of the checked properties
TileForRoadFirst(wx, wy, nBoundary, nRoad, nDetail) ==
    LET d2 == wx * wx + wy * wy
        bn == nBoundary * 15
        q == boundaryStart + bn \div NoiseScale
        r == bn % NoiseScale
        warp == nRoad * 20
        roadSpacing == 50 * NoiseScale
        distToHRoad == Abs(JsRem(wy * NoiseScale + warp, roadSpacing))
        distToVRoad == Abs(JsRem(wx * NoiseScale + warp, roadSpacing))
        isRoad == distToHRoad < 2 * NoiseScale \/ distToVRoad < 2 * NoiseScale
        noiseVal == nBoundary * 80 + nDetail * 20
    IN  IF isRoad THEN "Road"
        ELSE IF DistAbove(d2, q, r)
        THEN IF DistAbove(d2, q + 10, r) THEN "Bedrock" ELSE "Cliff"
        ELSE IF d2 < 100 THEN "Grass"
        ELSE IF noiseVal < 25 * NoiseScale THEN "Water"
        ELSE IF noiseVal < 30 * NoiseScale THEN "Sand"
        ELSE IF noiseVal < 60 * NoiseScale THEN "Grass"
        ELSE IF noiseVal < 75 * NoiseScale THEN "Forest"
        ELSE IF noiseVal < 85 * NoiseScale THEN "DeepForest"
        ELSE "Wall"

TileForNoSpawnArea(wx, wy, nBoundary, nRoad, nDetail) ==
    LET d2 == wx * wx + wy * wy
        bn == nBoundary * 15
        q == boundaryStart + bn \div NoiseScale
        r == bn % NoiseScale
        warp == nRoad * 20
        roadSpacing == 50 * NoiseScale
        distToHRoad == Abs(JsRem(wy * NoiseScale + warp, roadSpacing))
        distToVRoad == Abs(JsRem(wx * NoiseScale + warp, roadSpacing))
        isRoad == distToHRoad < 2 * NoiseScale \/ distToVRoad < 2 * NoiseScale
        noiseVal == nBoundary * 80 + nDetail * 20
    IN  IF DistAbove(d2, q, r)
        THEN IF DistAbove(d2, q + 10, r) THEN "Bedrock" ELSE "Cliff"
        ELSE IF isRoad THEN "Road"
        ELSE IF noiseVal < 25 * NoiseScale THEN "Water"
        ELSE IF noiseVal < 30 * NoiseScale THEN "Sand"
        ELSE IF noiseVal < 60 * NoiseScale THEN "Grass"
        ELSE IF noiseVal < 75 * NoiseScale THEN "Forest"
        ELSE IF noiseVal < 85 * NoiseScale THEN "DeepForest"
        ELSE "Wall"

\* the tile pushed for world tile (wx, wy) given the three noise samples:
\*   nBoundary = noise(wx*0.05, wy*0.05)   (boundaryNoise / 15, and n1)
\*   nRoad     = noise(wx*0.03, wy*0.03)   (roadWarp / 20)
\*   nDetail   = noise(wx*0.15+100, wy*0.15+100)   (n2)
TileFor(wx, wy, nBoundary, nRoad, nDetail) ==
    LET d2 == wx * wx + wy * wy
        bn == nBoundary * 15                       \* boundaryNoise * NoiseScale
        q == boundaryStart + bn \div NoiseScale     \* limit = q + r/NoiseScale
        r == bn % NoiseScale
        warp == nRoad * 20                         \* roadWarp * NoiseScale
        roadSpacing == 50 * NoiseScale
        distToHRoad == Abs(JsRem(wy * NoiseScale + warp, roadSpacing))
        distToVRoad == Abs(JsRem(wx * NoiseScale + warp, roadSpacing))
        isRoad == distToHRoad < 2 * NoiseScale \/ distToVRoad < 2 * NoiseScale
        noiseVal == nBoundary * 80 + nDetail * 20  \* noiseVal * 100 * NoiseScale
    IN  IF DistAbove(d2, q, r)
        THEN IF DistAbove(d2, q + 10, r) THEN "Bedrock" ELSE "Cliff"
        ELSE IF isRoad THEN "Road"
        ELSE IF d2 < 100 THEN "Grass"
        ELSE IF noiseVal < 25 * NoiseScale THEN "Water"
        ELSE IF noiseVal < 30 * NoiseScale THEN "Sand"
        ELSE IF noiseVal < 60 * NoiseScale THEN "Grass"
        ELSE IF noiseVal < 75 * NoiseScale THEN "Forest"
        ELSE IF noiseVal < 85 * NoiseScale THEN "DeepForest"
        ELSE "Wall"

\* the second implementation with Water in the band where it has Grass for
\* the first one's Sand
TileForSecondShoreWater(wx, wy, nBoundary, nRoad, nDetail) ==
    LET tile == TileFor(wx, wy, nBoundary, nRoad, nDetail)
    IN  IF tile = "Sand" THEN "Water" ELSE tile

\* The loop body of generateChunk in the second WorldSystem implementation
\* (the one without a render cache): the same tests in the same order, with
\* Grass where the first has Sand.
TileForSecond(wx, wy, nBoundary, nRoad, nDetail) ==
    LET d2 == wx * wx + wy * wy
        bn == nBoundary * 15
        q == boundaryStart + bn \div NoiseScale
        r == bn % NoiseScale
        warp == nRoad * 20
        roadSpacing == 50 * NoiseScale
        distToHRoad == Abs(JsRem(wy * NoiseScale + warp, roadSpacing))
        distToVRoad == Abs(JsRem(wx * NoiseScale + warp, roadSpacing))
        isRoad == distToHRoad < 2 * NoiseScale \/ distToVRoad < 2 * NoiseScale
        noiseVal == nBoundary * 80 + nDetail * 20
    IN  IF DistAbove(d2, q, r)
        THEN IF DistAbove(d2, q + 10, r) THEN "Bedrock" ELSE "Cliff"
        ELSE IF isRoad THEN "Road"
        ELSE IF d2 < 100 THEN "Grass"
        ELSE IF noiseVal < 25 * NoiseScale THEN "Water"
        ELSE IF noiseVal < 30 * NoiseScale THEN "Grass"
        ELSE IF noiseVal < 60 * NoiseScale THEN "Grass"
        ELSE IF noiseVal < 75 * NoiseScale THEN "Forest"
        ELSE IF noiseVal < 85 * NoiseScale THEN "DeepForest"
        ELSE "Wall"

TileAtWorldTile(wx, wy) ==
    TileFor(wx, wy,
            noise(wx * 5, 100, wy * 5, 100),
            noise(wx * 3, 100, wy * 3, 100),
            noise(wx * 15 + 10000, 100, wy * 15 + 10000, 100))

\* the grid built by the two nested loops of generateChunk
ChunkGrid(cx, cy) ==
    [y \in 0 .. chunkSize - 1 |->
        [x \in 0 .. chunkSize - 1 |->
            TileAtWorldTile(cx * chunkSize + x, cy * chunkSize + y)]]

\* ChunkGrid tabulated once for the chunks around the origin (evaluation
\* speed only; a chunk outside the table is computed on request)
MemoChunks == 3
MemoRange == -MemoChunks .. MemoChunks - 1
ChunkMemo == [cx \in MemoRange |-> [cy \in MemoRange |-> ChunkGrid(cx, cy)]]

generateChunk(cx, cy) ==
    IF cx \in MemoRange /\ cy \in MemoRange
    THEN ChunkMemo[cx][cy] ELSE ChunkGrid(cx, cy)

----------------------------------------------------------------------------
(* WorldSystem.ts : the chunk store *)

\* the template string `${cx},${cy}`
Key(cx, cy) == ToString(cx) \o "," \o ToString(cy)

\* A world value w = [chunks, generated, last] is threaded through the
\* queries, each of which returns the world it leaves behind next to its
\* result.  generated[<<cx, cy>>] records the number of generateChunk
\* invocations for the pair and the grid the first of them returned.

\* this.chunks.set(key, chunk), with the invocation recorded
Inserted(w, cx, cy, grid) ==
    LET c == <<cx, cy>>
        rec == IF c \in DOMAIN w.generated
               THEN [w.generated[c] EXCEPT !.count = @ + 1]
               ELSE [count |-> 1, first |-> grid]
    IN  [w EXCEPT !.chunks = (Key(cx, cy) :> grid) @@ w.chunks,
                  !.generated = (c :> rec) @@ w.generated]

GeneratedSeeded(w, cx, cy) ==
    Inserted(w, cx, cy, generateChunk(cx + Cardinality(DOMAIN w.chunks), cy))

\* const chunk = this.generateChunk(cx, cy); this.chunks.set(key, chunk);
Generated(w, cx, cy) == Inserted(w, cx, cy, generateChunk(cx, cy))

Returned(w, cx, cy, chunk, hit) ==
    [w |-> [w EXCEPT !.last = [cx |-> cx, cy |-> cy, chunk |-> chunk,
                               hit |-> hit]],
     chunk |-> chunk]

\* return chunk, after a miss
ReturnedNew(w2, cx, cy) == Returned(w2, cx, cy, w2.chunks[Key(cx, cy)], FALSE)

getChunkAlwaysGenerates(w, cx, cy) == ReturnedNew(Generated(w, cx, cy), cx, cy)

getChunkEvictsOthers(w, cx, cy) ==
    IF Key(cx, cy) \in DOMAIN w.chunks
    THEN Returned(w, cx, cy, w.chunks[Key(cx, cy)], TRUE)
    ELSE ReturnedNew(Generated([w EXCEPT !.chunks = <<>>], cx, cy), cx, cy)

getChunk(w, cx, cy) ==
    IF Key(cx, cy) \in DOMAIN w.chunks
    THEN Returned(w, cx, cy, w.chunks[Key(cx, cy)], TRUE)
    ELSE ReturnedNew(Generated(w, cx, cy), cx, cy)

LocalIndexNoWrap(t) == JsRem(t, chunkSize)

\* let lx = tx % cs; if (lx < 0) lx += cs;
LocalIndex(t) ==
    LET l == JsRem(t, chunkSize)
    IN  IF l < 0 THEN l + chunkSize ELSE l

\* chunk[ly][lx]; an index outside the grid reads no tile
GridRead(chunk, lx, ly) ==
    IF ly \in DOMAIN chunk /\ lx \in DOMAIN chunk[ly]
    THEN chunk[ly][lx] ELSE "undefined"

\* return chunk[ly][lx], next to the indices ix that led to it
TileRead(got, ix) ==
    [w |-> got.w, tile |-> GridRead(got.chunk, ix.lx, ix.ly),
     look |-> [ix EXCEPT !.tile = GridRead(got.chunk, ix.lx, ix.ly)]]

TileIndices(worldX, worldY) ==
    LET ts == tileSize
        cs == chunkSize
        tx == FloorDiv(worldX, ts)
        ty == FloorDiv(worldY, ts)
    IN  [worldX |-> worldX, worldY |-> worldY, tx |-> tx, ty |-> ty,
         cx |-> FloorDiv(tx, cs), cy |-> FloorDiv(ty, cs),
         lx |-> LocalIndex(tx), ly |-> LocalIndex(ty), tile |-> "none"]

getTileAtIndices(w, ix) == TileRead(getChunk(w, ix.cx, ix.cy), ix)

getTileAt(w, worldX, worldY) == getTileAtIndices(w, TileIndices(worldX, worldY))

Passable(tile) == tile \in TileType /\ TILE_DEFS[tile].passable

PassableRead(got) == [w |-> got.w, result |-> Passable(got.tile), look |-> got.look]

isPassable(w, worldX, worldY) == PassableRead(getTileAt(w, worldX, worldY))

\* the two nested loops of checkCollision from tile (x, y) on, row by row,
\* returning at the first impassable tile
RECURSIVE CollisionScan(_, _, _, _, _, _, _)
RECURSIVE CollisionFrom(_, _, _, _, _, _)

CollisionScan(w, lk, x, y, startX, endX, endY) ==
    IF y > endY THEN [w |-> w, result |-> FALSE, look |-> lk]
    ELSE IF x > endX THEN CollisionScan(w, lk, startX, y + 1, startX, endX, endY)
    ELSE CollisionFrom(getTileAt(w, x * tileSize + tileSize \div 2,
                                 y * tileSize + tileSize \div 2),
                       x, y, startX, endX, endY)

\* if (!TILE_DEFS[tile].passable) return true; else the next tile
CollisionFrom(got, x, y, startX, endX, endY) ==
    IF ~Passable(got.tile)
    THEN [w |-> got.w, result |-> TRUE, look |-> got.look]
    ELSE CollisionScan(got.w, got.look, x + 1, y, startX, endX, endY)

checkCollisionFarEdgeOut(w, lk, rect) ==
    LET ts == tileSize
        startX == FloorDiv(rect.x, ts)
        endX == FloorDiv(rect.x + rect.width - 1, ts)
        startY == FloorDiv(rect.y, ts)
        endY == FloorDiv(rect.y + rect.height - 1, ts)
    IN  CollisionScan(w, lk, startX, startY, startX, endX, endY)

checkCollision(w, lk, rect) ==
    LET ts == tileSize
        startX == FloorDiv(rect.x, ts)
        endX == FloorDiv(rect.x + rect.width, ts)
        startY == FloorDiv(rect.y, ts)
        endY == FloorDiv(rect.y + rect.height, ts)
    IN  CollisionScan(w, lk, startX, startY, startX, endX, endY)

\* renderChunkToCache for every chunk of the range that has no canvas yet
RECURSIVE DrawScan(_, _, _, _, _, _, _)
DrawScan(w, cache, cx, cy, startCX, endCX, endCY) ==
    IF cy > endCY THEN [w |-> w, chunkCache |-> cache]
    ELSE IF cx > endCX THEN DrawScan(w, cache, startCX, cy + 1, startCX, endCX, endCY)
    ELSE IF Key(cx, cy) \in cache
         THEN DrawScan(w, cache, cx + 1, cy, startCX, endCX, endCY)
         ELSE DrawScan(getChunk(w, cx, cy).w, cache \cup {Key(cx, cy)},
                       cx + 1, cy, startCX, endCX, endCY)

draw(w, cache, camera, canvasWidth, canvasHeight) ==
    LET chunkSizePx == chunkSize * tileSize
        startCX == FloorDiv(camera.x, chunkSizePx) - 1
        endCX == FloorDiv(camera.x + canvasWidth, chunkSizePx) + 1
        startCY == FloorDiv(camera.y, chunkSizePx) - 1
        endCY == FloorDiv(camera.y + canvasHeight, chunkSizePx) + 1
    IN  DrawScan(w, cache, startCX, startCY, startCX, endCX, endCY)

World == [chunks |-> chunks, generated |-> generated, last |-> last]

NoLast == [cx |-> 0, cy |-> 0, chunk |-> <<>>, hit |-> FALSE]

\* new WorldSystem(): empty maps, then the constructor's getChunk(0, 0)
NewWorld ==
    getChunk([chunks |-> <<>>, generated |-> <<>>, last |-> NoLast], 0, 0).w

NoLook == [worldX |-> 0, worldY |-> 0, tx |-> 0, ty |-> 0, cx |-> 0, cy |-> 0,
           lx |-> 0, ly |-> 0, tile |-> "none"]

WorldConstructed ==
    /\ chunks = NewWorld.chunks
    /\ generated = NewWorld.generated
    /\ last = NewWorld.last
    /\ chunkCache = {}
    /\ look = NoLook
    /\ other = NewWorld

----------------------------------------------------------------------------
(* Vec2, Math and InputSystem *)

UnitScale == 1000

\* Math.sqrt, rounded down: the largest r in lo .. hi with r * r <= n
RECURSIVE SqrtBetween(_, _, _)
SqrtBetween(n, lo, hi) ==
    IF lo >= hi THEN lo
    ELSE LET mid == (lo + hi + 1) \div 2
         IN  IF mid * mid <= n THEN SqrtBetween(n, mid, hi)
             ELSE SqrtBetween(n, lo, mid - 1)

Sqrt(n) == SqrtBetween(n, 0, IF n < 46340 THEN n ELSE 46340)

Vec2zero == [x |-> 0, y |-> 0]

Vec2scale(v, s) == [x |-> v.x * s, y |-> v.y * s]

Vec2mag(v) == Sqrt(v.x * v.x + v.y * v.y)

\* the magnitude m with the sign of a: division is the same for both signs
Towards(a, m) == IF a < 0 THEN -m ELSE m

\* Vec2.normalize: the zero vector stays zero; the result's components are
\* in 1/UnitScale
Vec2normalize(v) ==
    LET m == Vec2mag(Vec2scale(v, UnitScale))
    IN  IF m = 0 THEN Vec2zero
        ELSE [x |-> Towards(v.x, (Abs(v.x) * UnitScale * UnitScale) \div m),
              y |-> Towards(v.y, (Abs(v.y) * UnitScale * UnitScale) \div m)]

PI == 180

\* atan on [0, 1]: the argument in 1/UnitScale, the result in degrees
AtanUnit(r) ==
    (45 * r) \div UnitScale + (16 * r * (UnitScale - r)) \div (UnitScale * UnitScale)

\* n / d in 1/UnitScale for 0 <= n <= d, d > 0
Ratio(n, d) ==
    IF n < 2000000 THEN (n * UnitScale) \div d ELSE n \div (d \div UnitScale)

\* Math.atan2(y, x), in (-PI, PI]; atan2(0, 0) is 0
Atan2(y, x) ==
    IF x = 0 /\ y = 0 THEN 0
    ELSE IF Abs(y) <= Abs(x)
         THEN LET a == AtanUnit(Ratio(Abs(y), Abs(x)))
              IN  IF x > 0 THEN (IF y >= 0 THEN a ELSE -a)
                  ELSE (IF y >= 0 THEN PI - a ELSE a - PI)
         ELSE LET a == AtanUnit(Ratio(Abs(x), Abs(y)))
                  b == IF x >= 0 THEN PI \div 2 - a ELSE PI \div 2 + a
              IN  IF y > 0 THEN b ELSE -b

\* sine of an angle in [0, PI], in 1/UnitScale
SinHalfTurn(a) ==
    LET p == a * (PI - a)
    IN  (4 * p * UnitScale) \div (40500 - p)

\* Math.sin and Math.cos, in 1/UnitScale
Sin(a) ==
    LET m == a % (2 * PI)
    IN  IF m <= PI THEN SinHalfTurn(m) ELSE -SinHalfTurn(m - PI)

Cos(a) == Sin(a + PI \div 2)

KeyNames == {"w", "a", "s", "d", "shift", "space", "mouseDown"}

\* InputSystem.keys after construction
NoKeys == [k \in KeyNames |-> FALSE]

\* InputSystem.setKey
setKey(ks, key, isPressed) == [ks EXCEPT ![key] = isPressed]

\* InputSystem.getMovementVector
getMovementVector(ks) ==
    LET y == (IF ks["s"] THEN 1 ELSE 0) - (IF ks["w"] THEN 1 ELSE 0)
        x == (IF ks["d"] THEN 1 ELSE 0) - (IF ks["a"] THEN 1 ELSE 0)
    IN  Vec2normalize([x |-> x, y |-> y])

----------------------------------------------------------------------------
(* ProjectileSystem *)

defaultSpeed == 1500
defaultLife == 2000

\* ProjectileSystem.spawn with no speed override
spawn(projs, x, y, angle) ==
    Append(projs, [x |-> x, y |-> y,
                   vx |-> Cos(angle) * defaultSpeed,
                   vy |-> Sin(angle) * defaultSpeed,
                   life |-> defaultLife, maxLife |-> defaultLife])

\* position after moving at v (1/1000 px per second) for dt milliseconds
Moved(c, v, dt) == c + (v * dt) \div 1000

\* ProjectileSystem.update: the loop from index i down to 1
RECURSIVE ProjectileScan(_, _, _, _, _)
RECURSIVE ProjectileAged(_, _, _, _, _)
RECURSIVE ProjectileKept(_, _, _, _, _)

ProjectileScan(w, lk, projs, i, dt) ==
    IF i < 1 THEN [w |-> w, look |-> lk, projectiles |-> projs]
    ELSE ProjectileAged(getTileAt(w, Moved(projs[i].x, projs[i].vx, dt),
                                  Moved(projs[i].y, projs[i].vy, dt)),
                        projs, i, dt,
                        [projs[i] EXCEPT !.x = Moved(@, projs[i].vx, dt),
                                         !.y = Moved(@, projs[i].vy, dt),
                                         !.life = @ - dt])

ProjectileAgedThroughWalls(got, projs, i, dt, moved) ==
    ProjectileKept(got, projs, i, dt, moved)

\* if (!def.passable) p.life = 0
ProjectileAged(got, projs, i, dt, moved) ==
    ProjectileKept(got, projs, i, dt,
                   IF ~Passable(got.tile) THEN [moved EXCEPT !.life = 0] ELSE moved)

ProjectileKeptSkipsNext(got, projs, i, dt, moved) ==
    IF moved.life <= 0
    THEN ProjectileScan(got.w, got.look,
                        SubSeq(projs, 1, i - 1) \o SubSeq(projs, i + 1, Len(projs)),
                        i - 2, dt)
    ELSE ProjectileScan(got.w, got.look, [projs EXCEPT ![i] = moved], i - 1, dt)

ProjectileKeptAtZero(got, projs, i, dt, moved) ==
    ProjectileScan(got.w, got.look,
                   IF moved.life < 0
                   THEN SubSeq(projs, 1, i - 1) \o SubSeq(projs, i + 1, Len(projs))
                   ELSE [projs EXCEPT ![i] = moved],
                   i - 1, dt)

\* if (p.life <= 0) this.projectiles.splice(i, 1)
ProjectileKept(got, projs, i, dt, moved) ==
    ProjectileScan(got.w, got.look,
                   IF moved.life <= 0
                   THEN SubSeq(projs, 1, i - 1) \o SubSeq(projs, i + 1, Len(projs))
                   ELSE [projs EXCEPT ![i] = moved],
                   i - 1, dt)

projectilesUpdate(w, lk, projs, dt) == ProjectileScan(w, lk, projs, Len(projs), dt)

----------------------------------------------------------------------------
(* PlayerEntity *)

size == 32000
rotationSpeed == 12
baseSpeed == 300
sprintMultiplier == 16
dashSpeedFast == 5 * baseSpeed
dashSpeed == 900
dashDuration == 200
maxDashCharges == 2
dashRechargeTime == 1500
dashDebounce == 200
fireRate == 120
muzzleOffset == 28

\* new PlayerEntity(startX, startY)
NewPlayer(startX, startY) ==
    [pos |-> [x |-> startX, y |-> startY], velocity |-> Vec2zero,
     rotation |-> 0, targetRotation |-> 0,
     isDashing |-> FALSE, dashTimer |-> 0, dashCharges |-> maxDashCharges,
     dashRechargeTimer |-> 0, dashDebounceTimer |-> 0, fireTimer |-> 0]

getBounds(x, y) ==
    [x |-> x - size \div 2, y |-> y - size \div 2, width |-> size, height |-> size]

\* while (angleDiff <= -Math.PI) angleDiff += Math.PI * 2
RECURSIVE WrapUp(_)
WrapUp(a) == IF a <= -PI THEN WrapUp(a + 2 * PI) ELSE a

\* while (angleDiff > Math.PI) angleDiff -= Math.PI * 2
RECURSIVE WrapDown(_)
WrapDown(a) == IF a > PI THEN WrapDown(a - 2 * PI) ELSE a

AngleDiffRaw(target, rotation) == target - rotation

AngleDiff(target, rotation) == WrapDown(WrapUp(target - rotation))

\* step 1 of update: turn toward the mouse
Rotated(p, mouse, dt) ==
    LET dx == mouse.worldX - p.pos.x
        dy == mouse.worldY - p.pos.y
        target == Atan2(dy, dx)
        angleDiff == AngleDiff(target, p.rotation)
    IN  [p EXCEPT !.targetRotation = target,
                  !.rotation = @ + (angleDiff * rotationSpeed * dt) \div 1000]

shootKeepsTimer(p, projs) ==
    LET muzzleX == p.pos.x + Cos(p.rotation) * muzzleOffset
        muzzleY == p.pos.y + Sin(p.rotation) * muzzleOffset
    IN  [player |-> p,
         projectiles |-> spawn(projs, muzzleX, muzzleY, p.rotation)]

\* PlayerEntity.shoot
shoot(p, projs) ==
    LET muzzleX == p.pos.x + Cos(p.rotation) * muzzleOffset
        muzzleY == p.pos.y + Sin(p.rotation) * muzzleOffset
    IN  [player |-> [p EXCEPT !.fireTimer = fireRate],
         projectiles |-> spawn(projs, muzzleX, muzzleY, p.rotation)]

CountDownUnguarded(t, dt) == t - dt

\* if (timer > 0) timer -= dt
CountDown(t, dt) == IF t > 0 THEN t - dt ELSE t

\* step 2 of update: the fire timer and the shot
Combat(p, projs, ks, dt) ==
    LET p1 == [p EXCEPT !.fireTimer = CountDown(@, dt)]
    IN  IF ks["mouseDown"] /\ p1.fireTimer <= 0
        THEN shoot(p1, projs)
        ELSE [player |-> p1, projectiles |-> projs]

DashChargingUnbounded(p, dt) ==
    LET t == p.dashRechargeTimer + dt
    IN  IF t >= dashRechargeTime
        THEN [p EXCEPT !.dashCharges = @ + 1, !.dashRechargeTimer = 0,
                       !.dashDebounceTimer = CountDown(@, dt)]
        ELSE [p EXCEPT !.dashRechargeTimer = t,
                       !.dashDebounceTimer = CountDown(@, dt)]

DashChargingLate(p, dt) ==
    LET p1 == IF p.dashCharges < maxDashCharges
              THEN LET t == p.dashRechargeTimer + dt
                   IN  IF t > dashRechargeTime
                       THEN [p EXCEPT !.dashCharges = @ + 1,
                                      !.dashRechargeTimer = 0]
                       ELSE [p EXCEPT !.dashRechargeTimer = t]
              ELSE p
    IN  [p1 EXCEPT !.dashDebounceTimer = CountDown(@, dt)]

DashChargingCarriesOver(p, dt) ==
    LET p1 == IF p.dashCharges < maxDashCharges
              THEN LET t == p.dashRechargeTimer + dt
                   IN  IF t >= dashRechargeTime
                       THEN [p EXCEPT !.dashCharges = @ + 1,
                                      !.dashRechargeTimer = t - dashRechargeTime]
                       ELSE [p EXCEPT !.dashRechargeTimer = t]
              ELSE p
    IN  [p1 EXCEPT !.dashDebounceTimer = CountDown(@, dt)]

\* step 3 of update: recharge one dash charge, count the debounce down
DashCharging(p, dt) ==
    LET p1 == IF p.dashCharges < maxDashCharges
              THEN LET t == p.dashRechargeTimer + dt
                   IN  IF t >= dashRechargeTime
                       THEN [p EXCEPT !.dashCharges = @ + 1,
                                      !.dashRechargeTimer = 0]
                       ELSE [p EXCEPT !.dashRechargeTimer = t]
              ELSE p
    IN  [p1 EXCEPT !.dashDebounceTimer = CountDown(@, dt)]

startDashKeepsCharge(p, dir) ==
    LET p1 == [p EXCEPT !.isDashing = TRUE, !.dashTimer = dashDuration,
                        !.dashDebounceTimer = dashDebounce,
                        !.velocity = Vec2scale(dir, dashSpeed)]
    IN  IF p1.dashCharges = maxDashCharges - 1
        THEN [p1 EXCEPT !.dashRechargeTimer = 0] ELSE p1

startDashAlwaysResets(p, dir) ==
    [p EXCEPT !.isDashing = TRUE, !.dashTimer = dashDuration,
              !.dashCharges = @ - 1,
              !.dashDebounceTimer = dashDebounce,
              !.velocity = Vec2scale(dir, dashSpeed),
              !.dashRechargeTimer = 0]

\* PlayerEntity.startDash
startDash(p, dir) ==
    LET p1 == [p EXCEPT !.isDashing = TRUE, !.dashTimer = dashDuration,
                        !.dashCharges = @ - 1,
                        !.dashDebounceTimer = dashDebounce,
                        !.velocity = Vec2scale(dir, dashSpeed)]
    IN  IF p1.dashCharges = maxDashCharges - 1
        THEN [p1 EXCEPT !.dashRechargeTimer = 0] ELSE p1

\* the test that guards the dash trigger in step 4
DashRequested(p, ks) ==
    ks["space"] /\ p.dashCharges > 0 /\ p.dashDebounceTimer <= 0

SlideYStopsAtAnyHit(p, hitX, hitY, desired, posX, nextY) ==
    [player |-> [p EXCEPT !.pos = [x |-> posX,
                                   y |-> IF hitY.result \/ hitX.result
                                         THEN p.pos.y ELSE nextY],
                          !.velocity = [x |-> IF hitX.result THEN 0 ELSE desired.x,
                                        y |-> IF hitY.result THEN 0 ELSE desired.y]],
     w |-> hitY.w, look |-> hitY.look]

\* the end of step 5: the Y move, given the outcome hitY of its collision test
SlideY(p, hitX, hitY, desired, posX, nextY) ==
    [player |-> [p EXCEPT !.pos = [x |-> posX,
                                   y |-> IF hitY.result THEN p.pos.y ELSE nextY],
                          !.velocity = [x |-> IF hitX.result THEN 0 ELSE desired.x,
                                        y |-> IF hitY.result THEN 0 ELSE desired.y]],
     w |-> hitY.w, look |-> hitY.look]

\* the X move, given the outcome hitX of its collision test, then the Y test
SlideX(p, hitX, desired, dt, posX, nextY) ==
    SlideY(p, hitX, checkCollision(hitX.w, hitX.look, getBounds(posX, nextY)),
           desired, posX, nextY)

SlideFromMovesAnyway(p, hitX, desired, dt, nextX) ==
    SlideX(p, hitX, desired, dt, nextX, Moved(p.pos.y, desired.y, dt))

\* step 5 of update: move along X, then along Y, stopping at impassable tiles
SlideFrom(p, hitX, desired, dt, nextX) ==
    SlideX(p, hitX, desired, dt, IF hitX.result THEN p.pos.x ELSE nextX,
           Moved(p.pos.y, desired.y, dt))

Slide(p, w, lk, desired, dt) ==
    SlideFrom(p, checkCollision(w, lk, getBounds(Moved(p.pos.x, desired.x, dt), p.pos.y)),
              desired, dt, Moved(p.pos.x, desired.x, dt))

DashGoesOnLate(p, w, lk, dt) ==
    IF p.dashTimer < 0
    THEN Slide([p EXCEPT !.isDashing = FALSE], w, lk, Vec2zero, dt)
    ELSE Slide(p, w, lk, p.velocity, dt)

\* the dash branch of step 4, with dashTimer already counted down
DashGoesOn(p, w, lk, dt) ==
    IF p.dashTimer <= 0
    THEN Slide([p EXCEPT !.isDashing = FALSE], w, lk, Vec2zero, dt)
    ELSE Slide(p, w, lk, p.velocity, dt)

WalkOrDashAnyDirection(p, w, lk, ks, dt, bonus, moveDir) ==
    IF DashRequested(p, ks)
    THEN [player |-> startDash(p, moveDir), w |-> w, look |-> lk]
    ELSE Slide(p, w, lk,
               Vec2scale(moveDir,
                         IF ks["shift"]
                         THEN ((baseSpeed + bonus.speed) * sprintMultiplier) \div 10
                         ELSE baseSpeed + bonus.speed),
               dt)

WalkOrDashMovesOn(p, w, lk, ks, dt, bonus, moveDir) ==
    IF DashRequested(p, ks) /\ Vec2mag(moveDir) > 0
    THEN Slide(startDash(p, moveDir), w, lk, Vec2scale(moveDir, dashSpeed), dt)
    ELSE Slide(p, w, lk,
               Vec2scale(moveDir,
                         IF ks["shift"]
                         THEN ((baseSpeed + bonus.speed) * sprintMultiplier) \div 10
                         ELSE baseSpeed + bonus.speed),
               dt)

\* the other branch of step 4: a dash starts and update returns, or the
\* player walks in the direction moveDir
WalkOrDash(p, w, lk, ks, dt, bonus, moveDir) ==
    IF DashRequested(p, ks) /\ Vec2mag(moveDir) > 0
    THEN [player |-> startDash(p, moveDir), w |-> w, look |-> lk]
    ELSE Slide(p, w, lk,
               Vec2scale(moveDir,
                         IF ks["shift"]
                         THEN ((baseSpeed + bonus.speed) * sprintMultiplier) \div 10
                         ELSE baseSpeed + bonus.speed),
               dt)

MovementRetriggers(p, w, lk, ks, dt, bonus) ==
    IF p.isDashing /\ ~DashRequested(p, ks)
    THEN DashGoesOn([p EXCEPT !.dashTimer = @ - dt], w, lk, dt)
    ELSE WalkOrDash(p, w, lk, ks, dt, bonus, getMovementVector(ks))

\* step 4 of update, followed by step 5 unless a dash starts
Movement(p, w, lk, ks, dt, bonus) ==
    IF p.isDashing
    THEN DashGoesOn([p EXCEPT !.dashTimer = @ - dt], w, lk, dt)
    ELSE WalkOrDash(p, w, lk, ks, dt, bonus, getMovementVector(ks))

ChargedAfter(moved, dt) ==
    [moved EXCEPT !.player = DashCharging(@, dt)]

MovingThenCharging(fired, w, lk, ks, dt, bonus) ==
    [moved |-> ChargedAfter(Movement(fired.player, w, lk, ks, dt, bonus), dt),
     projectiles |-> fired.projectiles]

\* steps 3 to 5, after the combat step has left fired
Moving(fired, w, lk, ks, dt, bonus) ==
    [moved |-> Movement(DashCharging(fired.player, dt), w, lk, ks, dt, bonus),
     projectiles |-> fired.projectiles]

Updated(r) ==
    [player |-> r.moved.player, w |-> r.moved.w, look |-> r.moved.look,
     projectiles |-> r.projectiles]

\* PlayerEntity.update
update(p, w, lk, projs, ks, dt, mouse, bonus) ==
    Updated(Moving(Combat(Rotated(p, mouse, dt), projs, ks, dt),
                   w, lk, ks, dt, bonus))

\* EquipmentSystem.getTotalBonusStats with every slot empty
NoBonus == [attack |-> 0, defense |-> 0, speed |-> 0, health |-> 0]

----------------------------------------------------------------------------
(* InventorySystemNew: slots, stacking and the operations on them *)

\* JavaScript's null, for a slot's item and for a call's return value
Null == [id |-> "null"]

Least(a, b) == IF a < b THEN a ELSE b

\* The items handed to the inventory: a weapon, a consumable and the
\* currency of ITEM_DATABASE, and a quest item (an Item with questItem set;
\* the database has none)
ItemCatalogue ==
    {[id |-> "rusty_sword", name |-> "Rusty Sword", type |-> "WEAPON",
      rarity |-> "COMMON", stackable |-> FALSE, maxStack |-> 1, value |-> 5,
      questItem |-> FALSE],
     [id |-> "elixir_of_strength", name |-> "Elixir of Strength",
      type |-> "CONSUMABLE", rarity |-> "RARE", stackable |-> TRUE,
      maxStack |-> 3, value |-> 50, questItem |-> FALSE],
     [id |-> "gold_coin", name |-> "Gold Coin", type |-> "CURRENCY",
      rarity |-> "COMMON", stackable |-> TRUE, maxStack |-> 999, value |-> 1,
      questItem |-> FALSE],
     [id |-> "sealed_letter", name |-> "Sealed Letter", type |-> "QUEST",
      rarity |-> "UNCOMMON", stackable |-> FALSE, maxStack |-> 1, value |-> 0,
      questItem |-> TRUE]}

\* String.localeCompare on the names, types and rarities of the catalogue:
\* their alphabetical order
Collation ==
    <<"COMMON", "CONSUMABLE", "CURRENCY", "Elixir of Strength", "Gold Coin",
      "QUEST", "RARE", "Rusty Sword", "Sealed Letter", "UNCOMMON", "WEAPON">>

localeCompare(a, b) ==
    (CHOOSE i \in DOMAIN Collation : Collation[i] = a)
        - (CHOOSE i \in DOMAIN Collation : Collation[i] = b)

EmptySlot == [item |-> Null, quantity |-> 0, locked |-> FALSE]

\* the number of slots given to the constructor
MaxSlots == 2

\* constructor(maxSlots) with nothing in localStorage: empty slots, indexed
\* from 0, and the starting gold
startingGold == 100

NewInventory(maxSlots) ==
    [slots |-> [i \in 0 .. maxSlots - 1 |-> EmptySlot],
     maxSlots |-> maxSlots, gold |-> startingGold]

\* this.slots.length
Length(slots) == Cardinality(DOMAIN slots)

RECURSIVE EmptyFrom(_, _)
EmptyFrom(slots, i) ==
    IF i >= Length(slots) THEN -1
    ELSE IF slots[i].item = Null THEN i
    ELSE EmptyFrom(slots, i + 1)

findEmptySlot(slots) == EmptyFrom(slots, 0)

\* addItem: the loop over the existing stacks, from slot i on
RECURSIVE StackOnto(_, _, _, _)
StackOnto(slots, item, quantity, i) ==
    IF i >= Length(slots)
    THEN [slots |-> slots, quantity |-> quantity, done |-> FALSE]
    ELSE IF /\ slots[i].item # Null
            /\ slots[i].item.id = item.id
            /\ slots[i].item.maxStack - slots[i].quantity > 0
    THEN LET amountToAdd ==
                 Least(quantity, slots[i].item.maxStack - slots[i].quantity)
             added == [slots EXCEPT ![i].quantity = @ + amountToAdd]
         IN  IF quantity - amountToAdd = 0
             THEN [slots |-> added, quantity |-> 0, done |-> TRUE]
             ELSE StackOnto(added, item, quantity - amountToAdd, i + 1)
    ELSE StackOnto(slots, item, quantity, i + 1)

\* addItem: the loop that fills empty slots with the remaining quantity
RECURSIVE PlaceNew(_, _, _)
PlaceNew(slots, item, quantity) ==
    IF quantity <= 0 THEN [slots |-> slots, result |-> TRUE]
    ELSE IF findEmptySlot(slots) = -1 THEN [slots |-> slots, result |-> FALSE]
    ELSE LET amountToAdd ==
                 IF item.stackable THEN Least(quantity, item.maxStack) ELSE 1
         IN  PlaceNew([slots EXCEPT ![findEmptySlot(slots)] =
                          [item |-> item, quantity |-> amountToAdd,
                           locked |-> item.questItem]],
                      item, quantity - amountToAdd)

AddRest(inv, item, stacked) ==
    IF stacked.done
    THEN [inventory |-> [inv EXCEPT !.slots = stacked.slots], result |-> TRUE]
    ELSE LET placed == PlaceNew(stacked.slots, item, stacked.quantity)
         IN  [inventory |-> [inv EXCEPT !.slots = placed.slots],
              result |-> placed.result]

addItem(inv, item, quantity) ==
    IF item.type = "CURRENCY"
    THEN [inventory |-> [inv EXCEPT !.gold = @ + quantity], result |-> TRUE]
    ELSE AddRest(inv, item,
                 IF item.stackable
                 THEN StackOnto(inv.slots, item, quantity, 0)
                 ELSE [slots |-> inv.slots, quantity |-> quantity,
                       done |-> FALSE])

\* a slot after amountToRemove was taken from it
Reduced(slot, amountToRemove) ==
    IF slot.quantity - amountToRemove <= 0 THEN EmptySlot
    ELSE [slot EXCEPT !.quantity = @ - amountToRemove]

\* removeItem: the loop over the slots, from slot i on
RECURSIVE RemoveFrom(_, _, _, _)
RemoveFrom(slots, itemId, remaining, i) ==
    IF i >= Length(slots)
    THEN [slots |-> slots, result |-> remaining = 0]
    ELSE IF slots[i].item # Null /\ slots[i].item.id = itemId
    THEN LET amountToRemove == Least(remaining, slots[i].quantity)
             taken == [slots EXCEPT ![i] = Reduced(@, amountToRemove)]
         IN  IF remaining - amountToRemove = 0
             THEN [slots |-> taken, result |-> TRUE]
             ELSE RemoveFrom(taken, itemId, remaining - amountToRemove, i + 1)
    ELSE RemoveFrom(slots, itemId, remaining, i + 1)

Removed(inv, taken) ==
    [inventory |-> [inv EXCEPT !.slots = taken.slots], result |-> taken.result]

RECURSIVE CountFrom(_, _, _)
CountFrom(slots, itemId, i) ==
    IF i >= Length(slots) THEN 0
    ELSE (IF slots[i].item # Null /\ slots[i].item.id = itemId
          THEN slots[i].quantity ELSE 0) + CountFrom(slots, itemId, i + 1)

getItemCount(inv, itemId) == CountFrom(inv.slots, itemId, 0)

\* removeItem that takes from the first slot holding the item only
removeItemFirstStack(inv, itemId, quantity) ==
    IF getItemCount(inv, itemId) = 0
    THEN [inventory |-> inv, result |-> FALSE]
    ELSE LET j == CHOOSE j \in DOMAIN inv.slots :
                      /\ CountFrom(inv.slots, itemId, j) = getItemCount(inv, itemId)
                      /\ inv.slots[j].item # Null
                      /\ inv.slots[j].item.id = itemId
         IN  [inventory |->
                  [inv EXCEPT !.slots[j] =
                      Reduced(@, Least(quantity, inv.slots[j].quantity))],
              result |-> TRUE]

removeItem(inv, itemId, quantity) ==
    Removed(inv, RemoveFrom(inv.slots, itemId, quantity, 0))

InRange(slots, slotIndex) == slotIndex >= 0 /\ slotIndex < Length(slots)

\* moveItem: the merge of two stacks of the same item
Merged(slots, fromSlot, toSlot) ==
    LET amountToTransfer ==
            Least(slots[fromSlot].quantity,
                  slots[toSlot].item.maxStack - slots[toSlot].quantity)
        poured == [[slots EXCEPT ![toSlot].quantity = @ + amountToTransfer]
                      EXCEPT ![fromSlot].quantity = @ - amountToTransfer]
    IN  IF poured[fromSlot].quantity <= 0
        THEN [poured EXCEPT ![fromSlot] = EmptySlot]
        ELSE poured

MovedSlots(slots, fromSlot, toSlot) ==
    IF slots[toSlot].item = Null
    THEN [[slots EXCEPT ![toSlot] = slots[fromSlot]]
             EXCEPT ![fromSlot] = EmptySlot]
    ELSE IF /\ slots[fromSlot].item # Null
            /\ slots[fromSlot].item.id = slots[toSlot].item.id
            /\ slots[fromSlot].item.stackable
    THEN Merged(slots, fromSlot, toSlot)
    ELSE [[slots EXCEPT ![toSlot] = slots[fromSlot]]
             EXCEPT ![fromSlot] = slots[toSlot]]

moveItem(inv, fromSlot, toSlot) ==
    IF ~InRange(inv.slots, fromSlot) \/ ~InRange(inv.slots, toSlot) THEN inv
    ELSE IF inv.slots[fromSlot].locked THEN inv
    ELSE [inv EXCEPT !.slots = MovedSlots(@, fromSlot, toSlot)]

dropItem(inv, slotIndex) ==
    IF ~InRange(inv.slots, slotIndex)
    THEN [inventory |-> inv, result |-> Null]
    ELSE IF inv.slots[slotIndex].item = Null \/ inv.slots[slotIndex].locked
    THEN [inventory |-> inv, result |-> Null]
    ELSE [inventory |-> [inv EXCEPT !.slots[slotIndex] = EmptySlot],
          result |-> [item |-> inv.slots[slotIndex].item,
                      quantity |-> inv.slots[slotIndex].quantity]]

\* useItem that leaves the emptied stack's item in its slot
useItemKeepsItem(inv, slotIndex) ==
    IF ~InRange(inv.slots, slotIndex)
    THEN [inventory |-> inv, result |-> Null]
    ELSE IF inv.slots[slotIndex].item = Null
    THEN [inventory |-> inv, result |-> Null]
    ELSE IF inv.slots[slotIndex].item.type # "CONSUMABLE"
    THEN [inventory |-> inv, result |-> Null]
    ELSE [inventory |-> [inv EXCEPT !.slots[slotIndex].quantity = @ - 1],
          result |-> inv.slots[slotIndex].item]

useItem(inv, slotIndex) ==
    IF ~InRange(inv.slots, slotIndex)
    THEN [inventory |-> inv, result |-> Null]
    ELSE IF inv.slots[slotIndex].item = Null
    THEN [inventory |-> inv, result |-> Null]
    ELSE IF inv.slots[slotIndex].item.type # "CONSUMABLE"
    THEN [inventory |-> inv, result |-> Null]
    ELSE [inventory |-> [inv EXCEPT !.slots[slotIndex] = Reduced(@, 1)],
          result |-> inv.slots[slotIndex].item]

SortCriteria == {"type", "rarity", "name", "value"}

\* sortInventory: the comparison function given to Array.sort
Compare(a, b, sortBy) ==
    CASE sortBy = "type" -> localeCompare(a.item.type, b.item.type)
      [] sortBy = "rarity" -> localeCompare(a.item.rarity, b.item.rarity)
      [] sortBy = "name" -> localeCompare(a.item.name, b.item.name)
      [] sortBy = "value" -> b.item.value - a.item.value
      [] OTHER -> 0

\* sortInventory: the occupied slots from slot i on, in slot order
RECURSIVE Collected(_, _)
Collected(slots, i) ==
    IF i >= Length(slots) THEN <<>>
    ELSE IF slots[i].item # Null THEN <<slots[i]>> \o Collected(slots, i + 1)
    ELSE Collected(slots, i + 1)

\* Array.sort is stable: an element goes behind those that compare equal
RECURSIVE InsertedInOrder(_, _, _)
InsertedInOrder(sorted, slot, sortBy) ==
    IF sorted = <<>> THEN <<slot>>
    ELSE IF Compare(Head(sorted), slot, sortBy) > 0 THEN <<slot>> \o sorted
    ELSE <<Head(sorted)>> \o InsertedInOrder(Tail(sorted), slot, sortBy)

RECURSIVE SortedBy(_, _)
SortedBy(items, sortBy) ==
    IF items = <<>> THEN <<>>
    ELSE InsertedInOrder(SortedBy(SubSeq(items, 1, Len(items) - 1), sortBy),
                         items[Len(items)], sortBy)

PlacedBack(slots, items) ==
    [i \in DOMAIN slots |-> IF i < Len(items) THEN items[i + 1] ELSE EmptySlot]

sortInventory(inv, sortBy) ==
    [inv EXCEPT !.slots = PlacedBack(@, SortedBy(Collected(@, 0), sortBy))]

\* no call observed yet
NoCall ==
    [op |-> "none", item |-> Null, itemId |-> "", quantity |-> 0,
     fromSlot |-> 0, toSlot |-> 0, sortBy |-> "", result |-> Null,
     before |-> Null]

\* nothing observed yet
NoTick ==
    [dt |-> 0, dashes |-> 0, still |-> FALSE, gone |-> {},
     stepped |-> FALSE, spawned |-> 0, since |-> -1, gap |-> -1,
     frame |-> 0, waited |-> 0]

\* useRef(0) for the previous frame's time, and the camera at (0, 0)
NewApp == [previousTime |-> 0, camera |-> [x |-> 0, y |-> 0]]

\* the objects App constructs: the player at (0, 0), no key held, no projectile
GameConstructed ==
    /\ player = NewPlayer(0, 0)
    /\ keys = NoKeys
    /\ projectiles = <<>>
    /\ tick = NoTick
    /\ app = NewApp
    /\ inventory = NewInventory(MaxSlots)
    /\ call = NoCall

----------------------------------------------------------------------------
(* Tile classification over every noise value: SpecGen *)

MaxTile == 110
NoiseSteps == 6

CoordSet ==
    {c \in -MaxTile .. MaxTile :
        Abs(c) \in {0, 1, 2, 7, 10, 24, 25, 48, 49, 72, 73, 96, 97, MaxTile}}

NoiseLevels ==
    {(k * NoiseScale) \div NoiseSteps : k \in 0 .. NoiseSteps - 1}
        \cup {NoiseScale - 1}

NoSample == [wx |-> 0, wy |-> 0, nBoundary |-> 0, nRoad |-> 0, nDetail |-> 0,
             tile |-> "none"]

InitGen ==
    /\ WorldConstructed
    /\ GameConstructed
    /\ sample \in [wx : CoordSet, wy : CoordSet, nBoundary : NoiseLevels,
                   nRoad : NoiseLevels, nDetail : NoiseLevels, tile : {"none"}]

\* the body of generateChunk's inner loop for one tile
Classify ==
    /\ sample.tile = "none"
    /\ sample' = [sample EXCEPT !.tile =
                     TileFor(sample.wx, sample.wy, sample.nBoundary,
                             sample.nRoad, sample.nDetail)]
    /\ UNCHANGED <<worldVars, gameVars>>

NextGen == Classify

SpecGen == InitGen /\ [][NextGen]_vars

\* the same for the second WorldSystem implementation
ClassifySecond ==
    /\ sample.tile = "none"
    /\ sample' = [sample EXCEPT !.tile =
                     TileForSecond(sample.wx, sample.wy, sample.nBoundary,
                                   sample.nRoad, sample.nDetail)]
    /\ UNCHANGED <<worldVars, gameVars>>

NextGenSecond == ClassifySecond

SpecGenSecond == InitGen /\ [][NextGenSecond]_vars

----------------------------------------------------------------------------
(* The chunk store under arbitrary query sequences: SpecWorld *)

MaxChunk == 1
MaxProbeTile == 17

\* chunk coordinates requested directly
ChunkRequests ==
    {<<-MaxChunk, -MaxChunk>>, <<0, 0>>, <<MaxChunk, MaxChunk>>,
     <<MaxChunk, 0>>}

\* world positions probed: the (-10, -10) px of the documented example, the
\* origin, the last 1/1000 px of tile -1, and tiles beyond the first chunk
ProbePoints ==
    {<<-10000, -10000>>, <<0, 0>>, <<-1, tileSize>>,
     <<MaxProbeTile * tileSize + 500, 0>>,
     <<-chunkSize * tileSize, -MaxProbeTile * tileSize>>}

\* the player's bounding box (getBounds) at two positions, a box that
\* covers several tiles, and a box inside the passable tile (-11, 1) whose
\* far edge lies on the border of the water tile (-10, 1)
ProbeRects ==
    {[x |-> px - 16000, y |-> -16000, width |-> 32000, height |-> 32000] :
        px \in {0, 21 * tileSize}}
    \cup {[x |-> -tileSize, y |-> 20 * tileSize, width |-> 3 * tileSize,
           height |-> 2 * tileSize]}
    \cup {[x |-> -10 * tileSize - size, y |-> tileSize + size \div 2,
           width |-> size, height |-> size]}

\* camera = player.pos - canvas centre, for a 320 x 200 canvas
CanvasWidth == 320000
CanvasHeight == 200000
Cameras == {[x |-> -160000, y |-> 20000], [x |-> 10000, y |-> 20000]}

InitWorld ==
    /\ WorldConstructed
    /\ GameConstructed
    /\ sample = NoSample

DoGetChunk ==
    \E c \in ChunkRequests :
        \E got \in {getChunk(World, c[1], c[2])} :
            /\ chunks' = got.w.chunks
            /\ generated' = got.w.generated
            /\ last' = got.w.last
            /\ UNCHANGED <<chunkCache, look, other, sample, gameVars>>

DoGetTileAt ==
    \E p \in ProbePoints :
        \E got \in {getTileAt(World, p[1], p[2])} :
            /\ chunks' = got.w.chunks
            /\ generated' = got.w.generated
            /\ last' = got.w.last
            /\ look' = got.look
            /\ UNCHANGED <<chunkCache, other, sample, gameVars>>

DoIsPassable ==
    \E p \in ProbePoints :
        \E got \in {isPassable(World, p[1], p[2])} :
            /\ chunks' = got.w.chunks
            /\ generated' = got.w.generated
            /\ last' = got.w.last
            /\ look' = got.look
            /\ UNCHANGED <<chunkCache, other, sample, gameVars>>

DoCheckCollision ==
    \E rect \in ProbeRects :
        \E got \in {checkCollision(World, look, rect)} :
            /\ chunks' = got.w.chunks
            /\ generated' = got.w.generated
            /\ last' = got.w.last
            /\ look' = got.look
            /\ UNCHANGED <<chunkCache, other, sample, gameVars>>

DoDraw ==
    \E camera \in Cameras :
        \E got \in {draw(World, chunkCache, camera, CanvasWidth, CanvasHeight)} :
            /\ chunks' = got.w.chunks
            /\ generated' = got.w.generated
            /\ last' = got.w.last
            /\ chunkCache' = got.chunkCache
            /\ UNCHANGED <<look, other, sample, gameVars>>

\* setTextures: the canvases are dropped, the tile grids are not touched
DoSetTextures ==
    /\ chunkCache' = {}
    /\ UNCHANGED <<chunks, generated, last, look, other, sample, gameVars>>

NextWorld ==
    \/ DoGetChunk
    \/ DoGetTileAt
    \/ DoIsPassable
    \/ DoCheckCollision
    \/ DoDraw
    \/ DoSetTextures

SpecWorld == InitWorld /\ [][NextWorld]_vars

----------------------------------------------------------------------------
(* Two runs of the program side by side: SpecRuns *)

\* the same queries, issued to the second WorldSystem instance
OtherGetChunk ==
    \E c \in ChunkRequests :
        \E got \in {getChunk(other, c[1], c[2])} :
            /\ other' = got.w
            /\ UNCHANGED <<chunks, chunkCache, generated, last, look, sample, gameVars>>

OtherGetTileAt ==
    \E p \in ProbePoints :
        \E got \in {getTileAt(other, p[1], p[2])} :
            /\ other' = got.w
            /\ UNCHANGED <<chunks, chunkCache, generated, last, look, sample, gameVars>>

NextRuns ==
    \/ DoGetChunk
    \/ OtherGetChunk
    \/ OtherGetTileAt

SpecRuns == InitWorld /\ [][NextRuns]_vars

----------------------------------------------------------------------------
(* The handlers that drive the player: key events and update ticks *)

MaxDt == 100
MaxCoord == 200000
MaxRotation == 400
MaxProjectiles == 1

\* the dt values handed to update: none, half of the cap, the cap
DtSet == {0, MaxDt \div 2, MaxDt}

\* player.update(dt, input, mouse, projectiles, world, equipment); the tick is
\* taken while the player stays inside the explored region, the square of
\* half-width reach around centre
PlayerUpdateWithin(centre, reach, dt, mouse, bonus) ==
    \E got \in {update(player, World, look, projectiles, keys, dt, mouse, bonus)} :
        /\ Abs(got.player.pos.x - centre.x) <= reach
        /\ Abs(got.player.pos.y - centre.y) <= reach
        /\ Abs(got.player.rotation) <= MaxRotation
        /\ Len(got.projectiles) <= MaxProjectiles
        /\ player' = got.player
        /\ projectiles' = got.projectiles
        /\ chunks' = got.w.chunks
        /\ generated' = got.w.generated
        /\ last' = got.w.last
        /\ look' = got.look
        /\ UNCHANGED <<chunkCache, other, sample, keys>>

\* the region explored around the spawn point
PlayerUpdate(dt, mouse, bonus) ==
    PlayerUpdateWithin([x |-> 0, y |-> 0], MaxCoord, dt, mouse, bonus)

\* projectiles.update(dt, world)
ProjectilesUpdate(dt) ==
    \E got \in {projectilesUpdate(World, look, projectiles, dt)} :
        /\ projectiles' = got.projectiles
        /\ chunks' = got.w.chunks
        /\ generated' = got.w.generated
        /\ last' = got.w.last
        /\ look' = got.look
        /\ UNCHANGED <<chunkCache, other, sample, keys, player>>

handleKeyDown(key) ==
    /\ keys' = setKey(keys, key, TRUE)
    /\ UNCHANGED <<worldVars, sample, player, projectiles>>

handleKeyUp(key) ==
    /\ keys' = setKey(keys, key, FALSE)
    /\ UNCHANGED <<worldVars, sample, player, projectiles>>

handleMouseDown ==
    /\ keys' = [keys EXCEPT !["mouseDown"] = TRUE]
    /\ UNCHANGED <<worldVars, sample, player, projectiles>>

handleMouseUp ==
    /\ keys' = [keys EXCEPT !["mouseDown"] = FALSE]
    /\ UNCHANGED <<worldVars, sample, player, projectiles>>

InitGame ==
    /\ WorldConstructed
    /\ GameConstructed
    /\ sample = NoSample

----------------------------------------------------------------------------
(* Shooting, then walking and dashing along the X axis: SpecPlayer *)

PlayerKeys == {"d", "space"}

\* the mouse held on the row of the player, to the east of the region
AimEast == [worldX |-> 5 * MaxCoord, worldY |-> 0]

\* The input script explored: the fire button is used before the player
\* first moves, the movement and dash keys once no shot is in flight.
NotMovedYet ==
    /\ player.pos = [x |-> 0, y |-> 0]
    /\ player.dashCharges = maxDashCharges
    /\ ~player.isDashing
    /\ player.dashDebounceTimer = 0
    /\ \A key \in PlayerKeys : ~keys[key]

NoShotInFlight == ~keys["mouseDown"] /\ projectiles = <<>>

KeyDown ==
    \E key \in PlayerKeys :
        NoShotInFlight /\ handleKeyDown(key) /\ UNCHANGED <<tick, app, inventory, call>>

KeyUp == \E key \in PlayerKeys : handleKeyUp(key) /\ UNCHANGED <<tick, app, inventory, call>>

MouseDown == NotMovedYet /\ handleMouseDown /\ UNCHANGED <<tick, app, inventory, call>>

MouseUp == handleMouseUp /\ UNCHANGED <<tick, app, inventory, call>>

PlayerTick ==
    \E dt \in DtSet : PlayerUpdate(dt, AimEast, NoBonus) /\ UNCHANGED <<tick, app, inventory, call>>

ProjectilesTick == \E dt \in DtSet : ProjectilesUpdate(dt) /\ UNCHANGED <<tick, app, inventory, call>>

NextPlayer ==
    \/ KeyDown
    \/ KeyUp
    \/ MouseDown
    \/ MouseUp
    \/ PlayerTick
    \/ ProjectilesTick

SpecPlayer == InitGame /\ [][NextPlayer]_vars

----------------------------------------------------------------------------
(* Turning toward a moving aim point: SpecAim *)

AimRadius == 100000

\* aim points around the spawn point, and the spawn point itself
AimPoints ==
    {[worldX |-> x * AimRadius, worldY |-> y * AimRadius] :
        x \in {-1, 0, 1}, y \in {-1, 0, 1}}

AimTick ==
    \E dt \in DtSet, mouse \in AimPoints :
        PlayerUpdate(dt, mouse, NoBonus) /\ UNCHANGED <<tick, app, inventory, call>>

NextAim == AimTick

SpecAim == InitGame /\ [][NextAim]_vars

----------------------------------------------------------------------------
(* Dashing under timed ticks, with the dash key held or tapped: SpecDash *)

DashKeys == {"a", "d", "space"}

\* every frame takes time
DashDts == DtSet \ {0}

\* The input script explored: "a" is only ever held together with "d", so the
\* movement vector points east or is zero, and the dash key goes down while
\* the player stands on the spawn point.
DashKeyDown ==
    \E key \in DashKeys :
        /\ key = "a" => keys["d"]
        /\ key = "space" => player.pos = [x |-> 0, y |-> 0]
        /\ handleKeyDown(key)
        /\ UNCHANGED <<tick, app, inventory, call>>

\* releasing the dash key ends the press
DashKeyUp ==
    \E key \in DashKeys :
        /\ key = "d" => ~keys["a"]
        /\ handleKeyUp(key)
        /\ tick' = IF key = "space" THEN [tick EXCEPT !.dashes = 0] ELSE tick
        /\ UNCHANGED <<app, inventory, call>>

\* one frame of App.animate: the observer notes dt, whether a dash started,
\* and whether the dash key was down with a zero movement vector
DashTick ==
    \E dt \in DashDts :
        /\ PlayerUpdate(dt, AimEast, NoBonus)
        /\ tick' = [tick EXCEPT
                       !.dt = dt,
                       !.dashes = IF ~player.isDashing /\ player'.isDashing
                                  THEN @ + 1 ELSE @,
                       !.still = keys["space"]
                                 /\ Vec2mag(getMovementVector(keys)) = 0]
        /\ UNCHANGED <<app, inventory, call>>

NextDash ==
    \/ DashKeyDown
    \/ DashKeyUp
    \/ DashTick

SpecDash == InitGame /\ [][NextDash]_vars

\* ENABLED <<DashTick>>_vars, spelled out: some frame stays inside the explored
\* region and changes the state
DashTickEnabled ==
    \E dt \in DashDts :
        \E got \in {update(player, World, look, projectiles, keys, dt, AimEast, NoBonus)} :
            /\ Abs(got.player.pos.x) <= MaxCoord
            /\ Abs(got.player.pos.y) <= MaxCoord
            /\ Abs(got.player.rotation) <= MaxRotation
            /\ Len(got.projectiles) <= MaxProjectiles
            /\ \/ got.player # player
               \/ got.projectiles # projectiles
               \/ got.w # World
               \/ got.look # look
               \/ dt # tick.dt
               \/ tick.still # (keys["space"]
                                /\ Vec2mag(getMovementVector(keys)) = 0)

\* requestAnimationFrame keeps calling animate, which requests the next frame
\* itself: a frame that can be taken is eventually taken. This is weak
\* fairness of DashTick, written with DashTickEnabled for its ENABLED.
SpecDashFair == SpecDash /\ ([]<>~DashTickEnabled \/ []<><<DashTick>>_vars)

----------------------------------------------------------------------------
(* Walking along the east face of a water tile: SpecSlide *)

\* The water tile (-10, 1) of the generated world has passable tiles to its
\* east, north and south. The player has walked from the spawn point along
\* the road to stand 5 px east of the tile, inside row 1, and has stopped.
SlideStart == [x |-> -9 * tileSize + size \div 2 + 5000, y |-> 90000]
SlideReach == 40000

\* The input script explored: the player pushes west against the tile
\* throughout, and north or south along its face from time to time.
SlideKeys == {"a", "w", "s"}

InitSlide ==
    /\ WorldConstructed
    /\ player = NewPlayer(SlideStart.x, SlideStart.y)
    /\ keys = NoKeys
    /\ projectiles = <<>>
    /\ tick = NoTick
    /\ app = NewApp
    /\ inventory = NewInventory(MaxSlots)
    /\ call = NoCall
    /\ sample = NoSample

SlideKeyDown ==
    \E key \in SlideKeys :
        /\ key # "a" => keys["a"]
        /\ handleKeyDown(key)
        /\ UNCHANGED <<tick, app, inventory, call>>

SlideKeyUp ==
    \E key \in SlideKeys \ {"a"} : handleKeyUp(key) /\ UNCHANGED <<tick, app, inventory, call>>

\* the mouse rests on the screen to the east of the player, on the player's row
SlideTick ==
    \E dt \in DashDts :
        /\ PlayerUpdateWithin(SlideStart, SlideReach, dt,
                              [worldX |-> player.pos.x + MaxCoord,
                               worldY |-> player.pos.y],
                              NoBonus)
        /\ tick' = [tick EXCEPT !.dt = dt]
        /\ UNCHANGED <<app, inventory, call>>

NextSlide ==
    \/ SlideKeyDown
    \/ SlideKeyUp
    \/ SlideTick

SpecSlide == InitSlide /\ [][NextSlide]_vars

----------------------------------------------------------------------------
(* Volleys of projectiles over open ground and toward water: SpecShots *)

MaxShots == 3
VolleyWindow == 100

\* Two muzzle positions: the player at the spawn point firing east along
\* row 0, which is passable as far as a projectile flies, and a player in row
\* 1 firing west at the water tile (-10, 1), 106 px from its east face.
Launches ==
    {[x |-> muzzleOffset * UnitScale, y |-> 0, angle |-> 0],
     [x |-> -470000, y |-> 96000, angle |-> PI]}

\* The input script explored: shots are fired in volleys, a further one only
\* while every projectile in flight is at most VolleyWindow old.
ShotSpawn ==
    \E l \in Launches :
        /\ Len(projectiles) < MaxShots
        /\ \A i \in 1 .. Len(projectiles) :
               projectiles[i].maxLife - projectiles[i].life <= VolleyWindow
        /\ projectiles' = spawn(projectiles, l.x, l.y, l.angle)
        /\ UNCHANGED <<worldVars, sample, player, keys, tick, app, inventory, call>>

\* what one pass of update makes of a single projectile
AdvancedOnce(p, dt) ==
    [p EXCEPT !.x = Moved(@, p.vx, dt),
              !.y = Moved(@, p.vy, dt),
              !.life = IF Passable(TileAtWorldTile(
                                       FloorDiv(Moved(p.x, p.vx, dt), tileSize),
                                       FloorDiv(Moved(p.y, p.vy, dt), tileSize)))
                       THEN @ - dt ELSE 0]

\* one frame: projectiles.update(dt, world); the observer notes dt and which
\* projectiles were due to go
ShotsTick ==
    \E dt \in DashDts :
        /\ ProjectilesUpdate(dt)
        /\ tick' = [tick EXCEPT
                       !.dt = dt,
                       !.gone = {i \in 1 .. Len(projectiles) :
                                    AdvancedOnce(projectiles[i], dt).life <= 0}]
        /\ UNCHANGED <<app, inventory, call>>

NextShots ==
    \/ ShotSpawn
    \/ ShotsTick

SpecShots == InitGame /\ [][NextShots]_vars

----------------------------------------------------------------------------
(* Dashing at the face of an impassable tile: SpecWall *)

WallReach == 150000
WallKeys == {"a", "d", "w", "space"}

\* The input script explored, from the place where SpecSlide starts: the
\* player backs off to the east with "d", lets go, holds the dash key and
\* perhaps "w", and then pushes west with "a", which starts a dash to the
\* west or north-west; the keys stay down until both charges are spent and
\* the last dash is over.
WallKeyDown ==
    \E key \in WallKeys :
        /\ key = "d" => \A held \in WallKeys : ~keys[held]
        /\ key = "space" => ~keys["d"] /\ ~keys["a"]
        /\ key = "w" => keys["space"] /\ ~keys["a"]
        /\ key = "a" => keys["space"]
        /\ handleKeyDown(key)
        /\ UNCHANGED <<tick, app, inventory, call>>

WallKeyUp == handleKeyUp("d") /\ UNCHANGED <<tick, app, inventory, call>>

WallTick ==
    \E dt \in DashDts :
        /\ player.dashCharges > 0 \/ player.isDashing
        /\ PlayerUpdateWithin(SlideStart, WallReach, dt,
                              [worldX |-> player.pos.x + MaxCoord,
                               worldY |-> player.pos.y],
                              NoBonus)
        /\ tick' = [tick EXCEPT !.dt = dt]
        /\ UNCHANGED <<app, inventory, call>>

NextWall ==
    \/ WallKeyDown
    \/ WallKeyUp
    \/ WallTick

SpecWall == InitSlide /\ [][NextWall]_vars

----------------------------------------------------------------------------
(* Whole frames of the game loop, with the fire button: SpecFrames *)

MaxTime == 1360
FirstTime == 1000

\* the time between two frames: none, half the fire rate, a stall
FrameGaps == {0, fireRate \div 2, 3 * MaxDt}

\* a frame's timestamp: not before the latest one; the first frame comes at
\* time 0 or some time after the page was loaded
FrameTimes ==
    IF app.previousTime = 0
    THEN {0, FirstTime}
    ELSE {app.previousTime + gap : gap \in FrameGaps}

\* the pointer rests on the right edge of the canvas, half way down
Pointer == [screenX |-> CanvasWidth, screenY |-> CanvasHeight \div 2]

\* MouseSystem.update(camera)
mouseUpdate(pointer, camera) ==
    [worldX |-> pointer.screenX + camera.x, worldY |-> pointer.screenY + camera.y]

\* animate: the time the latest frame is counted from
startedAt(prev, time) == IF prev = 0 THEN time ELSE prev

safeDtUnclamped(prev, time) == time - startedAt(prev, time)

\* animate: deltaTime, and safeDt = Math.min(deltaTime, 0.1)
safeDt(prev, time) ==
    IF time - startedAt(prev, time) < MaxDt
    THEN time - startedAt(prev, time) ELSE MaxDt

\* App.update after player.update has returned got: projectiles.update, then
\* the camera
AfterPlayer(got, shot, fired) ==
    [player |-> got.player, projectiles |-> shot.projectiles,
     w |-> shot.w, look |-> shot.look, fired |-> fired,
     camera |-> [x |-> got.player.pos.x - CanvasWidth \div 2,
                 y |-> got.player.pos.y - CanvasHeight \div 2]]

ThenProjectiles(got, dt, before) ==
    AfterPlayer(got, projectilesUpdate(got.w, got.look, got.projectiles, dt),
                Len(got.projectiles) - before)

ThenPlayer(got, before) ==
    AfterPlayer(got, got, Len(got.projectiles) - before)

AppUpdateProjectilesFirst(p, w, lk, projs, ks, camera, dt, pointer, bonus) ==
    ThenPlayer(update(p, projectilesUpdate(w, lk, projs, dt).w,
                      projectilesUpdate(w, lk, projs, dt).look,
                      projectilesUpdate(w, lk, projs, dt).projectiles,
                      ks, dt, mouseUpdate(pointer, camera), bonus),
               Len(projectilesUpdate(w, lk, projs, dt).projectiles))

\* App.update(dt, canvas)
AppUpdate(p, w, lk, projs, ks, camera, dt, pointer, bonus) ==
    ThenProjectiles(update(p, w, lk, projs, ks, dt, mouseUpdate(pointer, camera),
                           bonus),
                    dt, Len(projs))

\* the dt accumulated since the latest shot, once a shot was fired
SinceShot(dt) ==
    IF tick.since < 0 THEN -1
    ELSE IF tick.since + dt > fireRate + MaxDt THEN fireRate + MaxDt
    ELSE tick.since + dt

\* the time that has passed with the menu open since the latest update
MenuTime == IF tick.stepped THEN 0 ELSE tick.waited

\* render: world.draw with the camera of this frame
Rendered(time, camera, drawn) ==
    /\ chunks' = drawn.w.chunks
    /\ generated' = drawn.w.generated
    /\ last' = drawn.w.last
    /\ chunkCache' = drawn.chunkCache
    /\ app' = [previousTime |-> time, camera |-> camera]
    /\ UNCHANGED <<inventory, call>>
    /\ UNCHANGED <<other, sample, keys>>

\* a frame with the menu closed: update, then render
Stepped(time, dt, got) ==
    /\ Len(got.projectiles) <= MaxShots
    /\ player' = got.player
    /\ projectiles' = got.projectiles
    /\ look' = got.look
    /\ tick' = [tick EXCEPT
                   !.dt = dt,
                   !.stepped = TRUE,
                   !.spawned = got.fired,
                   !.gap = IF got.fired > 0 THEN SinceShot(dt) ELSE @,
                   !.since = IF got.fired > 0 THEN 0 ELSE SinceShot(dt),
                   !.frame = time,
                   !.waited = MenuTime]
    /\ Rendered(time, got.camera,
                draw(got.w, chunkCache, got.camera, CanvasWidth, CanvasHeight))

\* the same, but previousTimeRef keeps the time of the frame before
PausedKeepsTime(time) ==
    /\ tick' = [tick EXCEPT !.stepped = FALSE, !.spawned = 0, !.frame = time,
                            !.waited = MenuTime + time - tick.frame]
    /\ Rendered(app.previousTime, app.camera,
                draw(World, chunkCache, app.camera, CanvasWidth, CanvasHeight))
    /\ UNCHANGED <<player, projectiles, look>>

\* a frame with the menu open: render only
Paused(time) ==
    /\ tick' = [tick EXCEPT !.stepped = FALSE, !.spawned = 0, !.frame = time,
                            !.waited = MenuTime + time - tick.frame]
    /\ Rendered(time, app.camera,
                draw(World, chunkCache, app.camera, CanvasWidth, CanvasHeight))
    /\ UNCHANGED <<player, projectiles, look>>

\* App.animate(time)
Animate ==
    \E time \in FrameTimes, isMenuOpen \in BOOLEAN :
        /\ time <= MaxTime
        /\ IF isMenuOpen
           THEN Paused(time)
           ELSE Stepped(time, safeDt(app.previousTime, time),
                        AppUpdate(player, World, look, projectiles, keys,
                                  app.camera, safeDt(app.previousTime, time),
                                  Pointer, NoBonus))

FireDown == handleMouseDown /\ UNCHANGED <<tick, app, inventory, call>>

FireUp == handleMouseUp /\ UNCHANGED <<tick, app, inventory, call>>

NextFrames ==
    \/ FireDown
    \/ FireUp
    \/ Animate

SpecFrames == InitGame /\ [][NextFrames]_vars

----------------------------------------------------------------------------
(* Walking and dashing at the eastern edge of the world: SpecEdge *)

\* The Forest tile (100, 4) of the generated world is the last passable tile
\* of its row: the Cliff ring starts at tile (101, 4). The player has come
\* from the spawn point to the middle of tile (99, 4) and has stopped.
EdgeStart == [x |-> 99 * tileSize + tileSize \div 2,
              y |-> 4 * tileSize + tileSize \div 2]
EdgeReach == 260000

InitEdge ==
    /\ WorldConstructed
    /\ player = NewPlayer(EdgeStart.x, EdgeStart.y)
    /\ keys = NoKeys
    /\ projectiles = <<>>
    /\ tick = NoTick
    /\ app = NewApp
    /\ inventory = NewInventory(MaxSlots)
    /\ call = NoCall
    /\ sample = NoSample

\* The input script explored: the player pushes east with "d" throughout,
\* with the dash key down or up.
EdgeKeyDown ==
    \E key \in PlayerKeys :
        /\ key = "space" => keys["d"]
        /\ handleKeyDown(key)
        /\ UNCHANGED <<tick, app, inventory, call>>

EdgeKeyUp == handleKeyUp("space") /\ UNCHANGED <<tick, app, inventory, call>>

EdgeTick ==
    \E dt \in DashDts :
        /\ PlayerUpdateWithin(EdgeStart, EdgeReach, dt,
                              [worldX |-> player.pos.x + MaxCoord,
                               worldY |-> player.pos.y],
                              NoBonus)
        /\ tick' = [tick EXCEPT !.dt = dt]
        /\ UNCHANGED <<app, inventory, call>>

NextEdge ==
    \/ EdgeKeyDown
    \/ EdgeKeyUp
    \/ EdgeTick

SpecEdge == InitEdge /\ [][NextEdge]_vars

----------------------------------------------------------------------------
(* The inventory under arbitrary call sequences: SpecInventory *)

MaxQuantity == 2
MaxGold == startingGold + 1

Quantities == 1 .. MaxQuantity

\* the ids asked for: those of the catalogue and one that no item has
ItemIds == {item.id : item \in ItemCatalogue} \cup {"unknown"}

\* slot indices given to the calls: every slot, and one index off either end
SlotIndices == -1 .. MaxSlots

\* the inventory gets ret.inventory; the game is left alone
Called(made, ret) ==
    /\ inventory' = ret.inventory
    /\ call' = [made EXCEPT !.result = ret.result, !.before = inventory]
    /\ UNCHANGED <<worldVars, sample, player, keys, projectiles, tick, app>>

AddItem ==
    \E item \in ItemCatalogue, quantity \in Quantities :
        /\ item.type = "CURRENCY" => inventory.gold + quantity <= MaxGold
        /\ Called([NoCall EXCEPT !.op = "addItem", !.item = item,
                                    !.itemId = item.id, !.quantity = quantity],
                     addItem(inventory, item, quantity))

RemoveItem ==
    \E itemId \in ItemIds, quantity \in Quantities :
        Called([NoCall EXCEPT !.op = "removeItem", !.itemId = itemId,
                                 !.quantity = quantity],
                  removeItem(inventory, itemId, quantity))

MoveItem ==
    \E fromSlot \in SlotIndices, toSlot \in SlotIndices :
        Called([NoCall EXCEPT !.op = "moveItem", !.fromSlot = fromSlot,
                                 !.toSlot = toSlot],
                  [inventory |-> moveItem(inventory, fromSlot, toSlot),
                   result |-> Null])

DropItem ==
    \E slotIndex \in SlotIndices :
        Called([NoCall EXCEPT !.op = "dropItem", !.fromSlot = slotIndex],
                  dropItem(inventory, slotIndex))

UseItem ==
    \E slotIndex \in SlotIndices :
        Called([NoCall EXCEPT !.op = "useItem", !.fromSlot = slotIndex],
                  useItem(inventory, slotIndex))

SortInventory ==
    \E sortBy \in SortCriteria :
        Called([NoCall EXCEPT !.op = "sortInventory", !.sortBy = sortBy],
                  [inventory |-> sortInventory(inventory, sortBy),
                   result |-> Null])

NextInventory ==
    \/ AddItem
    \/ RemoveItem
    \/ MoveItem
    \/ DropItem
    \/ UseItem
    \/ SortInventory

SpecInventory == InitGame /\ [][NextInventory]_vars

----------------------------------------------------------------------------
(* Properties of the chunk store *)

\* C4: generateChunk is invoked at most once per coordinate pair, and every
\* getChunk(cx, cy) returns the very grid inserted on the first request.
C4_GenerateOnce ==
    /\ \A c \in DOMAIN generated : generated[c].count <= 1
    /\ \A c \in DOMAIN generated : Key(c[1], c[2]) \in DOMAIN chunks
    /\ LET c == <<last.cx, last.cy>>
       IN  /\ c \in DOMAIN generated
           /\ last.chunk = generated[c].first

\* the latest getChunk was served from the cache, for a chunk other than the
\* constructor's
C4_Witness ==
    /\ last.hit
    /\ <<last.cx, last.cy>> # <<0, 0>>
    /\ generated[<<last.cx, last.cy>>].count = 1

\* C5: a cached chunk is never removed and its grid never changes.
C5_CacheNeverShrinks ==
    [][\A k \in DOMAIN chunks :
          k \in DOMAIN chunks' /\ chunks'[k] = chunks[k]]_vars

\* the store holds several chunks after the canvases were dropped again
C5_Witness ==
    /\ Cardinality(DOMAIN chunks) >= 4
    /\ Key(0, 0) \in DOMAIN chunks
    /\ chunkCache = {}
    /\ look.tile # "none"

C9_TileMapping ==
    look.tile # "none" =>
        /\ look.tx * tileSize <= look.worldX
        /\ look.worldX < (look.tx + 1) * tileSize
        /\ look.ty * tileSize <= look.worldY
        /\ look.worldY < (look.ty + 1) * tileSize
        /\ look.lx \in 0 .. chunkSize - 1
        /\ look.ly \in 0 .. chunkSize - 1
        /\ look.cx * chunkSize + look.lx = look.tx
        /\ look.cy * chunkSize + look.ly = look.ty
        /\ look.tile \in TileType
        /\ (look.worldX = -10000 /\ look.worldY = -10000) =>
              (look.cx = -1 /\ look.cy = -1 /\ look.lx = 15 /\ look.ly = 15)

\* the documented example was looked up
C9_Witness ==
    /\ look.tile \in TileType
    /\ look.worldX = -10000 /\ look.worldY = -10000
    /\ look.cx = -1 /\ look.lx = 15 /\ look.ly = 15

----------------------------------------------------------------------------
(* Properties of the tile classification *)

Classified == sample.tile # "none"

SampleDist2 == sample.wx * sample.wx + sample.wy * sample.wy

\* dist > limit + k for the sample, limit = boundaryStart + 15 * nBoundary:
\* with limit + k = q + r/NoiseScale, dist > limit + k iff
\* dist^2 > floor((q + r/NoiseScale)^2)
SampleBeyond(k) ==
    LET q == boundaryStart + k + (15 * sample.nBoundary) \div NoiseScale
        r == (15 * sample.nBoundary) % NoiseScale
    IN  SampleDist2 >
            q * q + (2 * q * r * NoiseScale + r * r) \div (NoiseScale * NoiseScale)

\* the warped road grid passes through the sample's tile
SampleOnRoadGrid ==
    LET warp == 20 * sample.nRoad
        h == JsRem(sample.wy * NoiseScale + warp, 50 * NoiseScale)
        v == JsRem(sample.wx * NoiseScale + warp, 50 * NoiseScale)
    IN  \/ (h > -2 * NoiseScale /\ h < 2 * NoiseScale)
        \/ (v > -2 * NoiseScale /\ v < 2 * NoiseScale)

\* C7: beyond limit+10 a tile is Bedrock, between limit and limit+10 it is
\* Cliff, so no tile beyond the limit is Road or any passable kind.
C7_BoundaryContainment ==
    Classified =>
        /\ SampleBeyond(10) => sample.tile = "Bedrock"
        /\ (SampleBeyond(0) /\ ~SampleBeyond(10)) => sample.tile = "Cliff"
        /\ SampleBeyond(0) =>
              (sample.tile # "Road" /\ ~TILE_DEFS[sample.tile].passable)

\* a Cliff tile that lies on the road grid, and was classified Cliff
C7_Witness ==
    /\ Classified
    /\ sample.tile = "Cliff"
    /\ SampleOnRoadGrid

\* C8 as stated: every tile with dist < 10 is Grass whatever the noise,
\* the origin tile included.
C8_SpawnAllGrass ==
    (Classified /\ SampleDist2 < 100) => sample.tile = "Grass"

\* C8 amended: a tile with dist < 10 is Road when the road grid passes
\* through it and Grass otherwise; in both cases it is passable.
C8_SpawnGrassOrRoad ==
    (Classified /\ SampleDist2 < 100) =>
        /\ sample.tile = (IF SampleOnRoadGrid THEN "Road" ELSE "Grass")
        /\ TILE_DEFS[sample.tile].passable

\* a spawn-area tile off the road grid whose biome value alone would be Water
C8_Witness ==
    /\ Classified
    /\ SampleDist2 < 100
    /\ ~SampleOnRoadGrid
    /\ sample.nBoundary * 80 + sample.nDetail * 20 < 25 * NoiseScale
    /\ sample.tile = "Grass"

----------------------------------------------------------------------------
(* Properties of the player controller *)

\* C1: after any sequence of update ticks, dashCharges is a whole number with
\* 0 <= dashCharges <= maxDashCharges.
C1_ChargesInRange == player.dashCharges \in 0 .. maxDashCharges

\* both charges spent, the second dash under way
C1_Witness == player.dashCharges = 0 /\ player.isDashing

\* C2 as stated: after every tick the stored rotation lies in (-PI, PI].
C2_RotationInBranch == -PI < player.rotation /\ player.rotation <= PI

\* C2, amended: the target angle lies in (-PI, PI] and one tick turns the
\* player by the renormalised difference times rotationSpeed * dt, hence by
\* no more than PI * rotationSpeed * MaxDt; the stored rotation is the running
\* sum of those turns.
C2_TurnIsBounded ==
    [][player' # player =>
          LET turn == player'.rotation - player.rotation
              most == (PI * rotationSpeed * MaxDt) \div 1000
          IN  /\ -PI < player'.targetRotation
              /\ player'.targetRotation <= PI
              /\ -most <= turn
              /\ turn <= most]_vars

\* the stored rotation a full turn away from the branch (-PI, PI]
C2_Witness == player.rotation > 2 * PI /\ player.targetRotation <= PI

\* a timer goes up only when its event happens: a shot for fireTimer, a dash
\* start for dashTimer and dashDebounceTimer
TimersNeverIncrease ==
    /\ player'.fireTimer > player.fireTimer =>
          /\ player'.fireTimer = fireRate
          /\ Len(projectiles') = Len(projectiles) + 1
    /\ player'.dashTimer > player.dashTimer =>
          /\ player'.dashTimer = dashDuration
          /\ ~player.isDashing /\ player'.isDashing
    /\ player'.dashDebounceTimer > player.dashDebounceTimer =>
          /\ player'.dashDebounceTimer = dashDebounce
          /\ ~player.isDashing /\ player'.isDashing

TimersAtLeast(low) ==
    /\ player.fireTimer >= low
    /\ player.dashTimer >= low
    /\ player.dashDebounceTimer >= low

\* C3 as stated: the three timers never increase between their events and
\* each of them is >= 0 at the end of every tick.
C3_TimersClamped == [][TimersNeverIncrease /\ TimersAtLeast(0)']_vars

\* C3, amended: the three timers never increase between their events; they
\* are counted down by dt while positive and not clamped, so at the end of a
\* tick each of them is greater than -MaxDt.
C3_TimersBounded == [][TimersNeverIncrease /\ TimersAtLeast(1 - MaxDt)']_vars

\* all three timers below zero at the end of a tick
C3_Witness ==
    /\ player.fireTimer < 0
    /\ player.dashTimer < 0
    /\ player.dashDebounceTimer < 0

\* the conditions of the dash trigger, at the start of the tick; among the
\* handlers only update changes the player, and with these conditions it does
DashTriggered ==
    /\ ~player.isDashing
    /\ keys["space"]
    /\ player.dashCharges > 0
    /\ player.dashDebounceTimer <= 0
    /\ Vec2mag(getMovementVector(keys)) > 0

\* what startDash leaves behind, apart from the number of charges
DashStarted(p, ks) ==
    /\ p.isDashing
    /\ p.dashTimer = dashDuration
    /\ p.dashDebounceTimer = dashDebounce
    /\ p.velocity = Vec2scale(getMovementVector(ks), dashSpeed)
    /\ Vec2mag([x |-> p.velocity.x \div UnitScale,
                y |-> p.velocity.y \div UnitScale]) \in dashSpeed - 1 .. dashSpeed

\* C10 as stated: such a tick ends with the dash started and dashCharges one
\* below its value at the start of the tick.
C10_DashStartExact ==
    [][(DashTriggered /\ player' # player) =>
          /\ DashStarted(player', keys)
          /\ player'.dashCharges = player.dashCharges - 1]_vars

\* C10, amended: such a tick ends with the dash started; dashCharges is one
\* below its value after the recharge step of the same tick, which is the
\* value at the start of the tick unless the recharge completes in this tick
\* (then the count ends where it started); from a full pool it ends at
\* maxDashCharges - 1.
C10_DashStart ==
    [][(DashTriggered /\ player' # player) =>
          /\ DashStarted(player', keys)
          /\ \/ player'.dashCharges = player.dashCharges - 1
             \/ /\ player'.dashCharges = player.dashCharges
                /\ player.dashCharges < maxDashCharges
                /\ player.dashRechargeTimer + MaxDt >= dashRechargeTime
                /\ player'.dashRechargeTimer = 0
          /\ player.dashCharges = maxDashCharges =>
                player'.dashCharges = maxDashCharges - 1]_vars

\* a dash just started from a full pool, heading east at dashSpeed
C10_Witness ==
    /\ player.isDashing
    /\ player.dashTimer = dashDuration
    /\ player.dashCharges = maxDashCharges - 1
    /\ player.velocity = [x |-> dashSpeed * UnitScale, y |-> 0]

----------------------------------------------------------------------------
(* Properties of the dash: its duration, the recharge, the trigger *)

Idle == ~player.isDashing /\ Vec2mag(getMovementVector(keys)) = 0

\* on a tick with a charge missing that starts no dash, the recharge timer
\* takes the tick's dt and, on reaching dashRechargeTime, gives one charge
\* back and restarts from 0
RechargeStep ==
    (/\ player.dashCharges < maxDashCharges
     /\ player' # player
     /\ ~(~player.isDashing /\ player'.isDashing)) =>
        IF player.dashRechargeTimer + tick'.dt >= dashRechargeTime
        THEN /\ player'.dashCharges = player.dashCharges + 1
             /\ player'.dashRechargeTimer = 0
        ELSE /\ player'.dashCharges = player.dashCharges
             /\ player'.dashRechargeTimer = player.dashRechargeTimer + tick'.dt

\* C12: with a charge missing and no new dash, the first tick at which the dt
\* accumulated in dashRechargeTimer reaches dashRechargeTime adds one charge
\* and resets the timer; with frames of positive dt that keep coming, a
\* player who stands still gets every charge back.
C12_Recharge ==
    /\ [][RechargeStep]_vars
    /\ (Idle /\ player.dashCharges < maxDashCharges)
           ~> (player.dashCharges = maxDashCharges \/ ~Idle)

\* both charges are back after a dash was made
C12_Witness ==
    /\ player.dashCharges = maxDashCharges
    /\ player.dashTimer < 0
    /\ player.dashRechargeTimer = 0
    /\ ~player.isDashing
    /\ tick.dt = MaxDt \div 2

\* C16: a tick taken with the dash key down and a zero movement vector (no
\* movement key, or opposing keys) starts no dash: isDashing stays false, no
\* charge is spent, the debounce is not re-armed, and the tick ends with the
\* position unchanged and velocity (0, 0).
C16_NoDashWithoutDirection ==
    [][(/\ keys["space"]
        /\ Vec2mag(getMovementVector(keys)) = 0
        /\ ~player.isDashing) =>
           /\ ~player'.isDashing
           /\ player'.dashCharges >= player.dashCharges
           /\ player'.dashDebounceTimer <= player.dashDebounceTimer
           /\ player'.dashTimer = player.dashTimer
           /\ player'.pos = player.pos
           /\ (player' # player \/ tick'.still) =>
                  player'.velocity = Vec2zero]_vars

\* the latest tick was taken with the dash key and two opposing keys down,
\* with both charges and the debounce at rest
C16_Witness ==
    /\ tick.still
    /\ tick.dt = MaxDt
    /\ keys["space"] /\ keys["a"] /\ keys["d"]
    /\ ~player.isDashing
    /\ player.dashCharges = maxDashCharges
    /\ player.dashDebounceTimer <= 0
    /\ player.velocity = Vec2zero

\* C17: at most one dash is started while the dash key stays down.
C17_OneDashPerPress == tick.dashes <= 1

----------------------------------------------------------------------------
(* Properties of the collision response *)

\* the velocity a walking player asks for with the keys held
Desired == Vec2scale(getMovementVector(keys), baseSpeed)

\* the outcome of checkCollision for the player's box at (x, y)
Blocked(x, y) == checkCollision(World, look, getBounds(x, y)).result

\* C13: on a tick with a diagonal movement vector where the box moved along
\* X alone overlaps an impassable tile and the box moved along Y at the
\* unchanged X does not, x stays, y advances by the full desired velocity.y
\* * dt, and the stored velocity is (0, desired velocity.y).
C13_SlideAlongWall ==
    [][(/\ player' # player
        /\ Desired.x # 0
        /\ Desired.y # 0
        /\ Blocked(Moved(player.pos.x, Desired.x, tick'.dt), player.pos.y)
        /\ ~Blocked(player.pos.x, Moved(player.pos.y, Desired.y, tick'.dt))) =>
           /\ player'.pos.x = player.pos.x
           /\ player'.pos.y = Moved(player.pos.y, Desired.y, tick'.dt)
           /\ player'.velocity = [x |-> 0, y |-> Desired.y]]_vars

\* the player, pushing north-west, has slid north along the face of the
\* water tile without moving west
C13_Witness ==
    /\ keys["a"] /\ keys["w"] /\ ~keys["s"]
    /\ player.pos.x = SlideStart.x
    /\ player.pos.y < SlideStart.y
    /\ player.velocity.x = 0
    /\ player.velocity.y = Desired.y
    /\ player.velocity.y < 0
    /\ player.velocity.y > -baseSpeed * UnitScale

----------------------------------------------------------------------------
(* Properties of the projectile list *)

\* a step of update on a list that is not empty
ShotsUpdated == projectiles # <<>> /\ Len(projectiles') <= Len(projectiles)

Alive(p) == p.life > 0

\* C18: one update advances and ages every projectile of the list exactly
\* once, removes exactly those whose life is then <= 0, and leaves the others
\* in their order: the new list is the old one, each element advanced once,
\* without the dead.
C18_UpdatePass ==
    [][ShotsUpdated =>
           projectiles' =
               SelectSeq([i \in 1 .. Len(projectiles) |->
                             AdvancedOnce(projectiles[i], tick'.dt)],
                         Alive)]_vars

\* the second of three projectiles has just been removed, between two that
\* fly on
C18_Witness ==
    /\ tick.gone = {2}
    /\ Len(projectiles) = 2
    /\ projectiles[1].life < projectiles[2].life
    /\ projectiles[1].vx > 0
    /\ projectiles[2].vx > 0

\* C15: a projectile spawns with life = maxLife = defaultLife; an update that
\* lands it on a passable tile takes dt off its life and keeps it in the list
\* exactly while life is left, so it goes at the first update at which the dt
\* accumulated since the spawn reaches maxLife, and not before.
C15_ExpiresOnTime ==
    [][/\ \A i \in 1 .. Len(projectiles') :
              /\ projectiles'[i].maxLife = defaultLife
              /\ projectiles'[i].life > 0
              /\ projectiles'[i].life <= defaultLife
       /\ Len(projectiles') > Len(projectiles) =>
              projectiles'[Len(projectiles')].life = defaultLife
       /\ ShotsUpdated =>
              \A i \in 1 .. Len(projectiles) :
                  AdvancedOnce(projectiles[i], tick'.dt).life
                          = projectiles[i].life - tick'.dt =>
                      ((projectiles[i].life - tick'.dt > 0)
                          <=> \E j \in 1 .. Len(projectiles') :
                                  projectiles'[j]
                                      = AdvancedOnce(projectiles[i], tick'.dt))]_vars

\* a projectile fired east from the spawn point has flown for maxLife over
\* passable tiles and has just gone, on a tick of the full dt
C15_Witness ==
    /\ projectiles = <<>>
    /\ tick.gone = {1}
    /\ tick.dt = MaxDt
    /\ look.worldX = muzzleOffset * UnitScale + defaultSpeed * defaultLife
    /\ look.worldY = 0
    /\ Passable(look.tile)

\* points of the segment flown in one update, PathSamples per update
PathSamples == 8

PathPoint(p, dt, k) ==
    [x |-> p.x + (k * ((p.vx * dt) \div 1000)) \div PathSamples,
     y |-> p.y + (k * ((p.vy * dt) \div 1000)) \div PathSamples]

\* the segment flown in this update has a point on an impassable tile
PathEntersImpassable(p, dt) ==
    \E k \in 1 .. PathSamples :
        ~Passable(TileAtWorldTile(FloorDiv(PathPoint(p, dt, k).x, tileSize),
                                  FloorDiv(PathPoint(p, dt, k).y, tileSize)))

----------------------------------------------------------------------------
(* Properties of the collision test and of the biome thresholds *)

\* some tile of the inclusive index range of rect is impassable
AnyImpassable(rect) ==
    \E tx \in FloorDiv(rect.x, tileSize) .. FloorDiv(rect.x + rect.width, tileSize),
       ty \in FloorDiv(rect.y, tileSize) .. FloorDiv(rect.y + rect.height, tileSize) :
        ~Passable(TileAtWorldTile(tx, ty))

\* C19: whatever the chunk store holds, checkCollision(rect) is true exactly
\* when a tile with index in [floor(x/ts), floor((x+width)/ts)] x
\* [floor(y/ts), floor((y+height)/ts)] is impassable, and every lookup made
\* by a scan that found one is at the centre of a tile.
C19_CollisionIffImpassable ==
    /\ \A rect \in ProbeRects :
           checkCollision(World, look, rect).result = AnyImpassable(rect)
    /\ (look.tile \in TileType /\ ~Passable(look.tile)) =>
           /\ look.worldX = look.tx * tileSize + tileSize \div 2
           /\ look.worldY = look.ty * tileSize + tileSize \div 2

\* the latest scan stopped at the centre of the water tile (-10, 1), the
\* last column of the range of a box that only touches it
C19_Witness ==
    /\ look.tile = "Water"
    /\ look.tx = -10
    /\ look.ty = 1
    /\ look.worldX = -10 * tileSize + tileSize \div 2
    /\ \E rect \in ProbeRects :
           /\ rect.x + rect.width = -10 * tileSize
           /\ checkCollision(World, look, rect).result
    /\ \E rect \in ProbeRects : ~checkCollision(World, look, rect).result

\* the biome value of the sample, in 1/(100 * NoiseScale)
SampleBiome == sample.nBoundary * 80 + sample.nDetail * 20

\* C20: a tile inside the boundary, off the road grid and with dist >= 10
\* gets its kind from the biome value v alone: Water below 0.25, Sand below
\* 0.3, Grass below 0.6, Forest below 0.75, DeepForest below 0.85, else Wall.
C20_BiomeThresholds ==
    (Classified /\ ~SampleBeyond(0) /\ ~SampleOnRoadGrid /\ SampleDist2 >= 100) =>
        sample.tile =
            (IF SampleBiome < 25 * NoiseScale THEN "Water"
             ELSE IF SampleBiome < 30 * NoiseScale THEN "Sand"
             ELSE IF SampleBiome < 60 * NoiseScale THEN "Grass"
             ELSE IF SampleBiome < 75 * NoiseScale THEN "Forest"
             ELSE IF SampleBiome < 85 * NoiseScale THEN "DeepForest"
             ELSE "Wall")

\* the tile under the projectile p
TileUnder(p) == TileAtWorldTile(FloorDiv(p.x, tileSize), FloorDiv(p.y, tileSize))

\* C30: every projectile that an update leaves in the list has
\* 0 < life <= maxLife and lies on a passable tile, whatever spawns and
\* updates came before.
C30_KeptAreAliveOnPassable ==
    [][ShotsUpdated =>
           \A i \in 1 .. Len(projectiles') :
               /\ projectiles'[i].life > 0
               /\ projectiles'[i].life <= projectiles'[i].maxLife
               /\ Passable(TileUnder(projectiles'[i]))]_vars

\* the latest update took a projectile off the list and left one that flies
\* west and would land on the water tile with one more step of MaxDt \div 2
C30_Witness ==
    /\ tick.gone # {}
    /\ \E i \in 1 .. Len(projectiles) :
           /\ projectiles[i].vx < 0
           /\ projectiles[i].life < projectiles[i].maxLife
           /\ ~Passable(TileUnder(AdvancedOnce(projectiles[i], MaxDt \div 2)))

----------------------------------------------------------------------------
(* Properties of a dash that meets an impassable tile *)

C22_DashStartSkipsMove ==
    [][(~player.isDashing /\ player'.isDashing) =>
           /\ player'.pos = player.pos
           /\ look' = look
           /\ last' = last
           /\ chunks' = chunks
           /\ generated' = generated]_vars

\* a dash has just started on the first tick of the run, and still no tile
\* of the world has ever been looked up
C22_Witness ==
    /\ player.isDashing
    /\ player.dashTimer = dashDuration
    /\ player.velocity = [x |-> dashSpeed * UnitScale, y |-> 0]
    /\ look = NoLook
    /\ tick.dt = MaxDt

\* the tiles under the box of the player as it goes from (x0, y0) to (x1, y1)
Swept(x0, y0, x1, y1) ==
    [x |-> (IF x0 < x1 THEN x0 ELSE x1) - size \div 2,
     y |-> (IF y0 < y1 THEN y0 ELSE y1) - size \div 2,
     width |-> Abs(x1 - x0) + size,
     height |-> Abs(y1 - y0) + size]

C28_BoxStaysClear ==
    /\ ~Blocked(player.pos.x, player.pos.y)
    /\ ~AnyImpassable(getBounds(player.pos.x, player.pos.y))

\* a dash to the north-west has lost its X component at the water tile and
\* has carried the box north along the tile's face
C28_Witness ==
    /\ player.isDashing
    /\ player.velocity.x = 0
    /\ player.velocity.y < 0
    /\ player.pos.y < SlideStart.y
    /\ player.pos.x = SlideStart.x
    /\ Blocked(player.pos.x - (dashSpeed * tick.dt), player.pos.y)

----------------------------------------------------------------------------
(* Properties of whole frames *)

\* C23: a frame's player update fires at most one projectile, and only with
\* the fire button down and fireTimer <= 0 once the frame's dt is taken off;
\* the shot leaves fireTimer = fireRate; and the dt accumulated from one shot
\* to the next is at least fireRate.
C23_FireRate ==
    [][(keys' = keys /\ tick'.stepped) =>
           /\ tick'.spawned \in {0, 1}
           /\ tick'.spawned = 1 =>
                  /\ keys["mouseDown"]
                  /\ CountDown(player.fireTimer, tick'.dt) <= 0
                  /\ player'.fireTimer = fireRate
                  /\ tick'.gap = -1 \/ tick'.gap >= fireRate]_vars

\* a second shot has just been fired, with exactly fireRate of dt accumulated
\* since the first
C23_Witness ==
    /\ tick.stepped
    /\ tick.spawned = 1
    /\ tick.gap = fireRate
    /\ Len(projectiles) = 2

\* C25: the dt handed to update lies in 0 .. MaxDt on every frame; it is 0 on
\* the first frame, MaxDt on a frame that comes MaxDt or more after the one
\* before, and the time since the frame before otherwise.
C25_DtClamped ==
    [][(keys' = keys /\ tick'.stepped) =>
           /\ tick'.dt \in 0 .. MaxDt
           /\ app.previousTime = 0 => tick'.dt = 0
           /\ app.previousTime # 0 =>
                  tick'.dt = IF app'.previousTime - app.previousTime >= MaxDt
                             THEN MaxDt
                             ELSE app'.previousTime - app.previousTime]_vars

\* the first frame came at FirstTime, a stalled frame followed it, and update
\* was handed MaxDt
C25_Witness ==
    /\ tick.stepped
    /\ tick.dt = MaxDt
    /\ app.previousTime = FirstTime + 3 * MaxDt

\* the projectile the player's update fires from the state p, aiming at mouse
Fired(p, mouse, dt) == shoot(Rotated(p, mouse, dt), <<>>).projectiles[1]

\* C26: a projectile fired by the player's update is moved and aged by the
\* projectile update of the same frame: at the end of the frame it is the
\* last of the list, displaced by velocity * dt with life = maxLife - dt,
\* unless it landed on an impassable tile and is gone.
C26_SpawnedIsAdvanced ==
    [][(keys' = keys /\ tick'.stepped /\ tick'.spawned = 1) =>
           LET new == Fired(player, mouseUpdate(Pointer, app.camera), tick'.dt)
               x == new.x + (new.vx * tick'.dt) \div 1000
               y == new.y + (new.vy * tick'.dt) \div 1000
           IN  IF Passable(TileAtWorldTile(FloorDiv(x, tileSize),
                                           FloorDiv(y, tileSize)))
               THEN /\ projectiles' # <<>>
                    /\ projectiles'[Len(projectiles')] =
                           [new EXCEPT !.x = x, !.y = y,
                                       !.life = new.maxLife - tick'.dt]
               ELSE \A i \in 1 .. Len(projectiles') :
                        projectiles'[i].x # x \/ projectiles'[i].y # y]_vars

\* a shot was fired on a frame of the full dt, and the frame ends with the
\* new projectile 150 px from the muzzle and MaxDt older
C26_Witness ==
    /\ tick.stepped
    /\ tick.spawned = 1
    /\ tick.dt = MaxDt
    /\ projectiles # <<>>
    /\ projectiles[Len(projectiles)].life = defaultLife - MaxDt
    /\ projectiles[Len(projectiles)].x = (muzzleOffset + (defaultSpeed * MaxDt) \div 1000) * 1000

----------------------------------------------------------------------------
(* Properties of the order of the steps of a tick *)

\* the recharge timer reaches dashRechargeTime on the tick that follows
RechargeDue ==
    /\ player.dashCharges < maxDashCharges
    /\ player.dashRechargeTimer + tick'.dt >= dashRechargeTime

\* C27: the recharge of step 3 comes before the dash trigger of step 4 and
\* does not depend on isDashing: a tick in which the recharge is due gives
\* the charge also during a dash, and when it is due with dashCharges = 0 and
\* a dash is asked for (dash key down, debounce run out, a direction held),
\* the dash starts in that very tick and leaves dashCharges at 0.
C27_RechargeBeforeTrigger ==
    [][(player' # player /\ RechargeDue) =>
           /\ player.isDashing => player'.dashCharges = player.dashCharges + 1
           /\ (/\ ~player.isDashing
               /\ player.dashCharges = 0
               /\ keys["space"]
               /\ CountDown(player.dashDebounceTimer, tick'.dt) <= 0
               /\ Vec2mag(getMovementVector(keys)) > 0) =>
                  /\ player'.isDashing
                  /\ player'.dashTimer = dashDuration
                  /\ player'.dashCharges = 0
                  /\ player'.dashRechargeTimer = 0]_vars

\* a dash has just started with the charge that the same tick gave back: no
\* charge is left and the recharge timer stands at 0
C27_Witness ==
    /\ player.isDashing
    /\ player.dashTimer = dashDuration
    /\ player.dashCharges = 0
    /\ player.dashRechargeTimer = 0

\* the recharge came due during a dash, and the dash goes on with the charge
RechargedDuringDash ==
    /\ player.isDashing
    /\ player.dashTimer < dashDuration
    /\ player.dashRechargeTimer = 0
    /\ player.dashCharges = 1
    /\ tick.dashes = 1

----------------------------------------------------------------------------
(* Properties of the edge of the world *)

\* the square of boundaryStart + 15
ClosedWithin2 == (boundaryStart + 15) * (boundaryStart + 15)

\* C29: every passable tile of every generated chunk lies less than
\* boundaryStart + 15 tiles from the origin, and so does every tile under the
\* box of the player.
C29_WorldClosed ==
    /\ \A c \in DOMAIN generated :
           \A lx \in 0 .. chunkSize - 1, ly \in 0 .. chunkSize - 1 :
               Passable(GridRead(generated[c].first, lx, ly)) =>
                   (c[1] * chunkSize + lx) * (c[1] * chunkSize + lx)
                       + (c[2] * chunkSize + ly) * (c[2] * chunkSize + ly)
                           < ClosedWithin2
    /\ \A tx \in FloorDiv(player.pos.x - size \div 2, tileSize)
                     .. FloorDiv(player.pos.x + size \div 2, tileSize),
          ty \in FloorDiv(player.pos.y - size \div 2, tileSize)
                     .. FloorDiv(player.pos.y + size \div 2, tileSize) :
           tx * tx + ty * ty < ClosedWithin2

\* the player has been stopped by the Cliff ring: "d" is held, the latest
\* tick left no velocity, and a step of 15 px further east would put the box
\* on the Cliff tile (101, 4)
C29_Witness ==
    /\ keys["d"]
    /\ ~player.isDashing
    /\ player.velocity = Vec2zero
    /\ player.pos.x > EdgeStart.x
    /\ <<6, 0>> \in DOMAIN generated
    /\ TileAtWorldTile(101, 4) = "Cliff"
    /\ FloorDiv(player.pos.x + size \div 2 + 15000, tileSize) = 101

----------------------------------------------------------------------------
(* Properties of the dash charges and timers *)

\* C31: at the end of every tick dashRechargeTimer lies in
\* [0, dashRechargeTime), and it is 0 whenever the pool of charges is full.
C31_RechargeTimerInRange ==
    /\ player.dashRechargeTimer >= 0
    /\ player.dashRechargeTimer < dashRechargeTime
    /\ player.dashCharges = maxDashCharges => player.dashRechargeTimer = 0

\* the pool is full again: a dash was started during the press of the dash
\* key that still lasts, and the charge it took has come back
C31_Witness ==
    /\ player.dashCharges = maxDashCharges
    /\ player.dashRechargeTimer = 0
    /\ ~player.isDashing
    /\ keys["space"]
    /\ tick.dashes = 1
    /\ tick.dt = MaxDt

\* C32: at the end of every tick isDashing holds exactly when dashTimer > 0,
\* and dashTimer is only ever raised by a tick that began with isDashing
\* false: a dash never starts during a dash.
C32_DashingIffTimer ==
    [][/\ player'.isDashing <=> player'.dashTimer > 0
       /\ player'.dashTimer > player.dashTimer =>
              /\ ~player.isDashing
              /\ player'.isDashing
              /\ player'.dashTimer = dashDuration]_vars

\* a dash has ended on a tick that took dashTimer below zero, with the dash
\* key still down and a charge left
C32_Witness ==
    /\ ~player.isDashing
    /\ player.dashTimer < 0
    /\ player.dashCharges = 1
    /\ keys["space"]
    /\ tick.dashes = 1

\* C33: a tick that starts a dash from a full pool ends with
\* dashRechargeTimer = 0; a tick that starts a dash with a charge missing
\* leaves the timer as step 3 of the same tick left it: advanced by dt, or 0
\* if the recharge came due.
C33_StartKeepsProgress ==
    [][(~player.isDashing /\ player'.isDashing) =>
           player'.dashRechargeTimer =
               IF player.dashCharges = maxDashCharges THEN 0
               ELSE IF player.dashRechargeTimer + tick'.dt >= dashRechargeTime
                    THEN 0
                    ELSE player.dashRechargeTimer + tick'.dt]_vars

\* the second dash has just started, and the recharge timer still holds the
\* progress made since the first
C33_Witness ==
    /\ player.isDashing
    /\ player.dashTimer = dashDuration
    /\ player.dashCharges = 0
    /\ player.dashRechargeTimer >= dashDuration

----------------------------------------------------------------------------
(* The two WorldSystem implementations compared *)

\* the tile the first implementation's loop body gives for the sample
SampleFirst ==
    TileFor(sample.wx, sample.wy, sample.nBoundary, sample.nRoad,
            sample.nDetail)

\* the tile the second implementation generates at world tile (wx, wy)
SecondAtWorldTile(wx, wy) ==
    TileForSecond(wx, wy,
                  noise(wx * 5, 100, wy * 5, 100),
                  noise(wx * 3, 100, wy * 3, 100),
                  noise(wx * 15 + 10000, 100, wy * 15 + 10000, 100))

\* C34: the two WorldSystem implementations agree on collision: a tile that
\* the second one has classified is passable exactly when the tile the first
\* one gives for the same inputs is (isPassable reads nothing else, and
\* checkCollision is a disjunction of such reads over the same tiles in
\* both), although the two tile kinds may differ; the same holds for the
\* tiles both generate at the sample's coordinates.
C34_CollisionAgrees ==
    Classified =>
        /\ Passable(sample.tile) = Passable(SampleFirst)
        /\ Passable(SecondAtWorldTile(sample.wx, sample.wy))
               = Passable(TileAtWorldTile(sample.wx, sample.wy))

\* the second implementation has classified a tile as Grass where the first
\* gives Sand
C34_Witness ==
    /\ Classified
    /\ sample.tile = "Grass"
    /\ SampleFirst = "Sand"

----------------------------------------------------------------------------
(* Properties of the paused game loop *)

\* C35: a frame taken with the menu open leaves the player and the
\* projectile list as they were, and the first update after such frames
\* gets min(the time since the latest frame, MaxDt) as its dt, whatever time
\* has passed with the menu open.
C35_PausedThenOneFrame ==
    [][/\ (keys' = keys /\ ~tick'.stepped) =>
              /\ player' = player
              /\ projectiles' = projectiles
       /\ (keys' = keys /\ tick'.stepped /\ ~tick.stepped /\ tick.frame > 0) =>
              tick'.dt = IF tick'.frame - tick.frame < MaxDt
                         THEN tick'.frame - tick.frame ELSE MaxDt]_vars

\* the menu was open for three times MaxDt while the player had a shot in
\* flight, and the update that came half a fire interval later got that
\* half interval as its dt
C35_Witness ==
    /\ tick.stepped
    /\ tick.waited = 3 * MaxDt
    /\ tick.dt = fireRate \div 2
    /\ tick.since = fireRate \div 2
    /\ projectiles # <<>>

----------------------------------------------------------------------------
(* Properties of the inventory *)

\* C36: moveItem never moves a locked item: whatever fromSlot and toSlot
\* are, a slot that was locked before the call holds the same item in the
\* same quantity, still locked, after it.
C36_LockedStays ==
    call.op = "moveItem" =>
        \A i \in DOMAIN call.before.slots :
            call.before.slots[i].locked =>
                /\ i \in DOMAIN inventory.slots
                /\ inventory.slots[i] = call.before.slots[i]

\* C37: removeItem(itemId, q) with q >= 1 returns true exactly when the
\* inventory held at least q units of itemId before the call, and when it
\* returns true the count of itemId is q lower and the count of every
\* other id is as before.
C37_RemoveExactly ==
    call.op = "removeItem" =>
        /\ call.quantity >= 1
        /\ call.result =
               (getItemCount(call.before, call.itemId) >= call.quantity)
        /\ call.result =>
               \A id \in ItemIds :
                   getItemCount(inventory, id) =
                       getItemCount(call.before, id)
                           - (IF id = call.itemId THEN call.quantity ELSE 0)

\* the latest removeItem returned true after it had emptied the stack in
\* slot 0 and taken the rest from a later stack, which still holds some
C37_Witness ==
    /\ call.op = "removeItem"
    /\ call.result
    /\ call.before.slots[0].item # Null
    /\ call.before.slots[0].item.id = call.itemId
    /\ call.before.slots[0].quantity < call.quantity
    /\ inventory.slots[0] = EmptySlot
    /\ getItemCount(inventory, call.itemId) > 0

\* C38: an addItem or removeItem call that returns false leaves every slot
\* and the gold as they were before the call.
C38_FailureChangesNothing ==
    (call.op \in {"addItem", "removeItem"} /\ call.result = FALSE) =>
        /\ inventory.slots = call.before.slots
        /\ inventory.gold = call.before.gold

\* C39: from the empty inventory on, after any calls of addItem, removeItem,
\* moveItem, dropItem, useItem and sortInventory with positive quantities,
\* there are maxSlots slots, a slot's item is null exactly when its quantity
\* is 0, and an occupied slot holds between 1 and item.maxStack units.
C39_SlotsWellFormed ==
    /\ inventory.maxSlots = MaxSlots
    /\ DOMAIN inventory.slots = 0 .. inventory.maxSlots - 1
    /\ \A i \in DOMAIN inventory.slots :
           /\ inventory.slots[i].item = Null <=> inventory.slots[i].quantity = 0
           /\ inventory.slots[i].item # Null =>
                  /\ inventory.slots[i].quantity >= 1
                  /\ inventory.slots[i].quantity
                         <= inventory.slots[i].item.maxStack

\* the latest moveItem poured one unit from a stack of two into another
\* stack of the same item, which is full now
C39_Witness ==
    /\ call.op = "moveItem"
    /\ call.fromSlot \in DOMAIN inventory.slots
    /\ call.toSlot \in DOMAIN inventory.slots
    /\ call.fromSlot # call.toSlot
    /\ call.before.slots[call.fromSlot].quantity = 2
    /\ call.before.slots[call.toSlot].quantity = 2
    /\ inventory.slots[call.fromSlot].quantity = 1
    /\ inventory.slots[call.toSlot].quantity
           = inventory.slots[call.toSlot].item.maxStack

============================================================================
